---- MODULE Spec2Model ----
(***************************************************************************)
(* Sealed pack workflow of Jemima's Asking (src/ops/sealed_workflow.py):   *)
(* the pack pool on disk (packs/new, packs/used), the room store, and the  *)
(* `start` command (command_start) that assigns the next sealed pack pair  *)
(* to a new room.  Each process is one invocation of the CLI; a step of a  *)
(* process is one file-system or room-store operation of command_start.    *)
(***************************************************************************)
EXTENDS Integers, Sequences, FiniteSets, TLC

(***************************************************************************)
(* Bounds of the model.                                                    *)
(***************************************************************************)
\* number of timestamp keys that may have files in packs/new
NumKeys == 2
\* number of room codes random.choice may produce (the first codes of the
\* enumeration of alphabet^3)
NumCodes == 2
\* number of `start` invocations a process makes
MaxCalls == 2
\* number of `generate` runs
MaxRuns == 2
\* how far the clock advances, in ticks
MaxTicks == 3
\* ticks of the clock in one second
TicksPerSecond == 2

(***************************************************************************)
(* Program constants.                                                      *)
(***************************************************************************)
PASSWORD == "DEMO-ONLY"
PBKDF2_ITERATIONS == 150000
QUESTIONS_PREFIX == "QPACK"
MATHS_PREFIX == "MPACK"
\* length of the AES-GCM tag that aes_gcm_encrypt appends
TagLen == 16
SaltLen == 16
NonceLen == 12
\* number of characters of a room code
CodeLen == 3

Procs == {1, 2}

(***************************************************************************)
(* JSON values.  A value is a record tagged by its type; an object is a    *)
(* sequence of key/value pairs in insertion order (a Python dict).         *)
(***************************************************************************)
JStr(s) == [t |-> "str", v |-> s]
JNum(n) == [t |-> "num", v |-> n]
JBool(b) == [t |-> "bool", v |-> b]
JNull == [t |-> "null", v |-> 0]
JArr(items) == [t |-> "arr", v |-> items]
JObj(pairs) == [t |-> "obj", v |-> pairs]
\* a str given by the sequence of its characters (a room code, a hex digest)
JChars(chars) == [t |-> "chars", v |-> chars]
KV(key, val) == [k |-> key, v |-> val]

HasKey(obj, key) == \E i \in DOMAIN obj.v : obj.v[i].k = key

\* dict.get(key, default)
Get(obj, key, default) ==
    IF HasKey(obj, key)
    THEN obj.v[CHOOSE i \in DOMAIN obj.v : obj.v[i].k = key].v
    ELSE default

\* dict.pop(key, None): the object without the key, the other keys in order
Pop(obj, key) == JObj(SelectSeq(obj.v, LAMBDA kv : kv.k # key))

\* obj[key] = val: an existing key keeps its position, a new key goes last
SetKey(obj, key, val) ==
    IF HasKey(obj, key)
    THEN JObj([i \in DOMAIN obj.v |->
                 IF obj.v[i].k = key THEN KV(key, val) ELSE obj.v[i]])
    ELSE JObj(Append(obj.v, KV(key, val)))

\* decimal digits of a natural number, most significant first
DigitTokens == <<"0", "1", "2", "3", "4", "5", "6", "7", "8", "9">>
RECURSIVE NumTokens(_)
NumTokens(n) ==
    IF n < 10 THEN <<DigitTokens[n + 1]>>
    ELSE NumTokens(n \div 10) \o <<DigitTokens[(n % 10) + 1]>>

\* the characters of a str as json.dumps writes them between the quotes:
\* a quote and a backslash are preceded by a backslash
RECURSIVE Escape(_)
Escape(cs) ==
    IF \A i \in DOMAIN cs : cs[i] \notin {"\"", "\\"} THEN cs
    ELSE (IF cs[1] \in {"\"", "\\"} THEN <<"\\", cs[1]>> ELSE <<cs[1]>>)
         \o Escape(Tail(cs))

\* json.dumps(data, ensure_ascii=False, separators=(",", ":")) as a sequence
\* of tokens: no whitespace, keys in the order the dict holds them
RECURSIVE Dumps(_), DumpPairs(_), DumpItems(_)
Dumps(x) ==
    CASE x.t = "str" -> <<"\"", x.v, "\"">>
      [] x.t = "chars" -> <<"\"">> \o Escape(x.v) \o <<"\"">>
      [] x.t = "num" -> NumTokens(x.v)
      [] x.t = "bool" -> IF x.v THEN <<"true">> ELSE <<"false">>
      [] x.t = "null" -> <<"null">>
      [] x.t = "arr" -> <<"[">> \o DumpItems(x.v) \o <<"]">>
      [] x.t = "obj" -> <<"{">> \o DumpPairs(x.v) \o <<"}">>
DumpPairs(ps) ==
    IF ps = <<>> THEN <<>>
    ELSE <<"\"", ps[1].k, "\"", ":">> \o Dumps(ps[1].v)
         \o (IF Len(ps) > 1 THEN <<",">> ELSE <<>>) \o DumpPairs(Tail(ps))
DumpItems(xs) ==
    IF xs = <<>> THEN <<>>
    ELSE Dumps(xs[1]) \o (IF Len(xs) > 1 THEN <<",">> ELSE <<>>)
         \o DumpItems(Tail(xs))

canonical_json_bytes(data) == Dumps(data)

\* hashlib.sha256(data).hexdigest(): collision-free, so a digest stands for
\* the bytes it was computed from; it is written in hexadecimal digits, so
\* a quote is 22 and a backslash 5c in it
sha256_hex(data) ==
    <<"sha256:">> \o [i \in DOMAIN data |->
                        CASE data[i] = "\"" -> "22"
                          [] data[i] = "\\" -> "5c"
                          [] OTHER -> data[i]]


(***************************************************************************)
(* Results of operations that may raise: ok with a value, or the error.    *)
(***************************************************************************)
Ok(val) == [ok |-> TRUE, val |-> val, err |-> "none"]
Err(msg) == [ok |-> FALSE, val |-> JNull, err |-> msg]

(***************************************************************************)
(* Key derivation and AES-256-GCM, symbolically: a key is determined by    *)
(* the password, the salt and the iteration count; a ciphertext opens      *)
(* under the key and nonce it was made with, if its tag is intact.         *)
(***************************************************************************)
\* os.urandom(n): n random bytes, `id` telling one draw from another
Bytes(n, id) == [len |-> n, id |-> id]

derive_key(password, salt) ==
    [pw |-> password, salt |-> salt, iter |-> PBKDF2_ITERATIONS]

aes_gcm_encrypt(key, nonce, plaintext) ==
    [len |-> Len(plaintext) + TagLen, key |-> key, nonce |-> nonce,
     pt |-> plaintext, tag |-> TRUE]

\* aes_gcm_decrypt if it did not act on the result of EVP_DecryptFinal_ex
aes_gcm_decrypt_unverified(key, nonce, ciphertext_with_tag) ==
    IF ciphertext_with_tag.len < TagLen
    THEN Err("Ciphertext too short for AES-GCM.")
    ELSE Ok(ciphertext_with_tag.pt)

aes_gcm_decrypt(key, nonce, ciphertext_with_tag) ==
    IF ciphertext_with_tag.len < TagLen
    THEN Err("Ciphertext too short for AES-GCM.")
    ELSE IF /\ ciphertext_with_tag.key = key
            /\ ciphertext_with_tag.nonce = nonce
            /\ ciphertext_with_tag.tag
         THEN Ok(ciphertext_with_tag.pt)
         ELSE Err("AES-GCM authentication failed.")

\* base64.b64encode / base64.b64decode
b64encode(b) == [b64 |-> b]
b64decode(s) == s.b64

_seal_payload(payload, salt, nonce) ==
    [tag |-> "envelope",
     alg |-> "aes-256-gcm+pbkdf2-sha256",
     salt_b64 |-> b64encode(salt),
     nonce_b64 |-> b64encode(nonce),
     ct_b64 |-> b64encode(aes_gcm_encrypt(derive_key(PASSWORD, salt), nonce,
                                          canonical_json_bytes(payload))),
     pbkdf2_iterations |-> PBKDF2_ITERATIONS,
     original |-> Get(Get(payload, "meta", JObj(<<>>)), "roomCode", JChars(<<"S", "E", "A">>))]

(***************************************************************************)
(* Pack payloads found inside the sealed files of the pool.                *)
(***************************************************************************)
PackMeta ==
    JObj(<<KV("hostUid", JStr("host-1")), KV("guestUid", JStr("guest-1")),
           KV("generatedAt", JStr("2024-01-01T00:00:00Z")),
           KV("roomCode", JChars(<<"S", "E", "A">>))>>)

RoundEntry(h, g) ==
    JObj(<<KV("hostItems", JArr(<<JStr(h), JStr("h")>>)),
           KV("guestItems", JArr(<<JStr(g), JStr("g")>>))>>)

\* a questions pack; its rounds mapping lists round 2 before rounds 10 and
\* 1, and as strings "10" comes before "2"
QuestionPayload ==
    JObj(<<KV("version", JStr("jemima-questionpack-1")),
           KV("meta", PackMeta),
           KV("rounds", JObj(<<KV("2", RoundEntry("h2", "g2")),
                               KV("10", RoundEntry("h10", "g10")),
                               KV("1", RoundEntry("h1", "g1"))>>))>>)

MathsPayload ==
    JObj(<<KV("version", JStr("jemima-maths-chain-2")),
           KV("meta", PackMeta),
           KV("maths", JObj(<<KV("question", JStr("sum?")),
                              KV("answer", JNum(12)),
                              KV("clues", JArr(<<JStr("c1")>>)),
                              KV("reveals", JArr(<<JStr("r1")>>))>>))>>)

\* json.loads: a recursive-descent parse of the tokens json.dumps writes.
\* A parse gives the value read and the tokens that follow it.
ParseFail == [ok |-> FALSE, val |-> JNull, rest |-> <<>>]
Parsed(val, rest) == [ok |-> TRUE, val |-> val, rest |-> rest]

IsDigit(tok) == \E i \in DOMAIN DigitTokens : DigitTokens[i] = tok
DigitValue(tok) == (CHOOSE i \in DOMAIN DigitTokens : DigitTokens[i] = tok) - 1

\* how many digits the tokens begin with
RECURSIVE DigitRun(_)
DigitRun(ts) ==
    IF ts # <<>> /\ IsDigit(ts[1]) THEN 1 + DigitRun(Tail(ts)) ELSE 0

\* int(digits)
RECURSIVE NumberOf(_, _)
NumberOf(ts, acc) ==
    IF ts = <<>> THEN acc ELSE NumberOf(Tail(ts), 10 * acc + DigitValue(ts[1]))

\* the characters up to the closing quote, a backslash giving the
\* character after it, and the tokens after the closing quote
RECURSIVE ScanString(_, _)
ScanString(ts, body) ==
    IF \A i \in DOMAIN ts : ts[i] # "\"" THEN ParseFail
    ELSE IF LET close == CHOOSE i \in DOMAIN ts :
                             ts[i] = "\"" /\ \A j \in 1..(i - 1) : ts[j] # "\""
            IN  \A j \in 1..(close - 1) : ts[j] # "\\"
    THEN LET close == CHOOSE i \in DOMAIN ts :
                          ts[i] = "\"" /\ \A j \in 1..(i - 1) : ts[j] # "\""
         IN  Parsed(body \o SubSeq(ts, 1, close - 1), SubSeq(ts, close + 1, Len(ts)))
    ELSE IF ts[1] = "\\"
         THEN IF Len(ts) < 2 THEN ParseFail
              ELSE ScanString(Tail(Tail(ts)), Append(body, ts[2]))
    ELSE ScanString(Tail(ts), Append(body, ts[1]))

\* a string, the tokens beginning after its opening quote: a str of one
\* token or a str given by its characters
ParseString(ts) ==
    LET scan == ScanString(ts, <<>>)
    IN  IF ~scan.ok THEN ParseFail
        ELSE Parsed(IF Len(scan.val) = 1 THEN JStr(scan.val[1]) ELSE JChars(scan.val),
                    scan.rest)

RECURSIVE ParseValue(_), ParseItems(_, _), ParsePairs(_, _)
ParseValue(ts) ==
    IF ts = <<>> THEN ParseFail
    ELSE CASE ts[1] = "\"" -> ParseString(Tail(ts))
           [] ts[1] = "true" -> Parsed(JBool(TRUE), Tail(ts))
           [] ts[1] = "false" -> Parsed(JBool(FALSE), Tail(ts))
           [] ts[1] = "null" -> Parsed(JNull, Tail(ts))
           [] ts[1] = "[" ->
                IF Len(ts) > 1 /\ ts[2] = "]"
                THEN Parsed(JArr(<<>>), SubSeq(ts, 3, Len(ts)))
                ELSE ParseItems(Tail(ts), <<>>)
           [] ts[1] = "{" ->
                IF Len(ts) > 1 /\ ts[2] = "}"
                THEN Parsed(JObj(<<>>), SubSeq(ts, 3, Len(ts)))
                ELSE ParsePairs(Tail(ts), <<>>)
           [] OTHER ->
                IF IsDigit(ts[1])
                THEN LET n == DigitRun(ts)
                     IN  Parsed(JNum(NumberOf(SubSeq(ts, 1, n), 0)),
                                SubSeq(ts, n + 1, Len(ts)))
                ELSE ParseFail
\* the items of an array, the tokens beginning at an item
ParseItems(ts, acc) ==
    LET item == ParseValue(ts)
    IN  IF ~item.ok \/ item.rest = <<>> THEN ParseFail
        ELSE IF item.rest[1] = ","
        THEN ParseItems(Tail(item.rest), Append(acc, item.val))
        ELSE IF item.rest[1] = "]"
        THEN Parsed(JArr(Append(acc, item.val)), Tail(item.rest))
        ELSE ParseFail
\* the pairs of an object, the tokens beginning at the quote of a key
ParsePairs(ts, acc) ==
    IF Len(ts) < 5 \/ ts[1] # "\"" \/ ts[3] # "\"" \/ ts[4] # ":" THEN ParseFail
    ELSE LET val == ParseValue(SubSeq(ts, 5, Len(ts)))
         IN  IF ~val.ok \/ val.rest = <<>> THEN ParseFail
             ELSE IF val.rest[1] = ","
             THEN ParsePairs(Tail(val.rest), Append(acc, KV(ts[2], val.val)))
             ELSE IF val.rest[1] = "}"
             THEN Parsed(JObj(Append(acc, KV(ts[2], val.val))), Tail(val.rest))
             ELSE ParseFail

\* json.loads(plaintext.decode("utf-8")): the document, or a JSONDecodeError
json_loads(bytes) ==
    LET doc == ParseValue(bytes)
    IN  IF doc.ok /\ doc.rest = <<>> THEN Ok(doc.val) ELSE Err("JSONDecodeError")

_decrypt_envelope(envelope) ==
    LET salt == b64decode(envelope.salt_b64)
        nonce == b64decode(envelope.nonce_b64)
        ciphertext == b64decode(envelope.ct_b64)
    IN  IF salt.len < SaltLen \/ nonce.len # NonceLen \/ ciphertext.len = 0
        THEN Err("Invalid sealed envelope.")
        ELSE LET plaintext == aes_gcm_decrypt(derive_key(PASSWORD, salt), nonce,
                                              ciphertext)
             IN  IF plaintext.ok THEN json_loads(plaintext.val) ELSE plaintext

(***************************************************************************)
(* The file system.  A timestamp key is a string, here the sequence of its *)
(* characters' code points; a file name is PREFIX_<ts>.<ext>.              *)
(***************************************************************************)
\* candidate timestamp keys, in no particular order
AllKeys == << <<2>>, <<1, 2>>, <<1>>, <<1, 1>> >>
Keys == {AllKeys[i] : i \in 1..NumKeys}
Prefixes == {QUESTIONS_PREFIX, MATHS_PREFIX}
Exts == {"sealed", "json"}
FileName(prefix, ts, ext) == [prefix |-> prefix, ts |-> ts, ext |-> ext]
Names == {FileName(p, k, e) : p \in Prefixes, k \in Keys, e \in Exts}

\* a file has its bytes, whole or cut short.  Files are only ever copied,
\* renamed, cut short and removed, so the bytes are named by where they were
\* first written: the pool shape and the first file name
NoName == FileName("", <<>>, "")
File(data) == [whole |-> TRUE, data |-> data]
Truncated(file) == [file EXCEPT !.whole = FALSE]

\* a directory maps the names of the files in it to the files
EmptyDir == [n \in {} |-> File([shape |-> "none", name |-> NoName])]
\* path.exists()
Exists(directory, n) == n \in DOMAIN directory
\* the directory once a file is written or renamed to n
WithFile(directory, n, file) ==
    [m \in DOMAIN directory \cup {n} |-> IF m = n THEN file ELSE directory[m]]
\* the directory once n is unlinked or renamed away
WithoutFile(directory, n) == [m \in DOMAIN directory \ {n} |-> directory[m]]

\* str < str in Python: by code point, a proper prefix is smaller
RECURSIVE LexLess(_, _)
LexLess(a, b) ==
    IF a = <<>> THEN b # <<>>
    ELSE IF b = <<>> THEN FALSE
    ELSE IF a[1] # b[1] THEN a[1] < b[1]
    ELSE LexLess(Tail(a), Tail(b))

\* sorted(set_of_strings, reverse=True)
RECURSIVE sorted_descending(_)
sorted_descending(S) ==
    IF S = {} THEN <<>>
    ELSE LET greatest == CHOOSE x \in S : \A y \in S : x = y \/ LexLess(y, x)
         IN  <<greatest>> \o sorted_descending(S \ {greatest})

\* sorted(set_of_strings)
RECURSIVE sorted(_)
sorted(S) ==
    IF S = {} THEN <<>>
    ELSE LET least == CHOOSE x \in S : \A y \in S : x = y \/ LexLess(x, y)
         IN  <<least>> \o sorted(S \ {least})

\* the stem of a file name with the given prefix, <<>> standing for None
extract_timestamp(name, prefix) ==
    IF name.prefix # prefix THEN <<>> ELSE name.ts

\* directory.glob(f"{prefix}_*.{ext}")
Glob(directory, prefix, ext) ==
    {n \in DOMAIN directory :
        n.prefix = prefix /\ n.ext = ext}

\* the dict ts -> path built by one glob loop of _discover_pairs
TimestampMap(directory, prefix, ext) ==
    LET found == {n \in Glob(directory, prefix, ext) :
                     extract_timestamp(n, prefix) # <<>>}
        stamps == {extract_timestamp(n, prefix) : n \in found}
    IN  [ts \in stamps |->
            CHOOSE n \in found : extract_timestamp(n, prefix) = ts]

PackPair(ts, qs, ms, qm, mm) ==
    [timestamp |-> ts, question_sealed |-> qs, maths_sealed |-> ms,
     question_manifest |-> qm, maths_manifest |-> mm]

\* _discover_pairs if it did not skip the keys without both manifests
_discover_pairs_without_manifest_test(source) ==
    LET question_map == TimestampMap(source, QUESTIONS_PREFIX, "sealed")
        maths_map == TimestampMap(source, MATHS_PREFIX, "sealed")
        kept == sorted(DOMAIN question_map \cap DOMAIN maths_map)
    IN  [i \in DOMAIN kept |->
            PackPair(kept[i], question_map[kept[i]], maths_map[kept[i]],
                     FileName(QUESTIONS_PREFIX, kept[i], "json"),
                     FileName(MATHS_PREFIX, kept[i], "json"))]

_discover_pairs(source) ==
    LET question_map == TimestampMap(source, QUESTIONS_PREFIX, "sealed")
        maths_map == TimestampMap(source, MATHS_PREFIX, "sealed")
        q_manifest_map == TimestampMap(source, QUESTIONS_PREFIX, "json")
        m_manifest_map == TimestampMap(source, MATHS_PREFIX, "json")
        candidates == sorted(DOMAIN question_map \cap DOMAIN maths_map)
        kept == SelectSeq(candidates,
                    LAMBDA ts : ts \in DOMAIN q_manifest_map
                                /\ ts \in DOMAIN m_manifest_map)
    IN  [i \in DOMAIN kept |->
            PackPair(kept[i], question_map[kept[i]], maths_map[kept[i]],
                     q_manifest_map[kept[i]], m_manifest_map[kept[i]])]

build_manifest(kind, version, sealed_name, sealed_data, created_at, source_template) ==
    [tag |-> "manifest", type |-> kind, version |-> version,
     createdAt |-> created_at, hash |-> [sha256 |-> sealed_data],
     filename |-> sealed_name, sourceTemplate |-> source_template]

(***************************************************************************)
(* Room codes.                                                             *)
(***************************************************************************)
Alphabet ==
    <<"A", "B", "C", "D", "E", "F", "G", "H", "J", "K", "L", "M", "N", "P",
      "Q", "R", "S", "T", "U", "V", "W", "X", "Y", "Z", "2", "3", "4", "5",
      "6", "7", "8", "9">>

RECURSIVE Power(_, _)
Power(b, e) == IF e = 0 THEN 1 ELSE b * Power(b, e - 1)

\* the i-th string of CodeLen characters over the alphabet
CodeAt(i) ==
    [j \in 1..CodeLen |->
        Alphabet[((i \div Power(Len(Alphabet), CodeLen - j)) % Len(Alphabet)) + 1]]

\* the codes "".join(random.choice(alphabet) for _ in range(3)) yields here
Codes == {CodeAt(i) : i \in 0..(NumCodes - 1)}
NoCode == <<>>

\* the names of the directories in packs/used
_list_used_codes(used_dir) == DOMAIN used_dir

\* _generate_room_code if it returned its first draw
_generate_room_code_unchecked(existing) == Codes

\* the codes _generate_room_code(existing) can return: a draw that is in
\* `existing` is rejected and drawn again
_generate_room_code(existing) == {drawn \in Codes : drawn \notin existing}

\* the loop of _generate_room_code if it made one attempt and raised when
\* the draw is taken
loop_pass_single_attempt(drawn, existing) ==
    IF drawn \notin existing THEN "return" ELSE "raise"

\* one pass of the loop `while True` on the code drawn: return it, or go
\* round again
loop_pass(drawn, existing) ==
    IF drawn \notin existing THEN "return" ELSE "again"

(***************************************************************************)
(* Recombination and integrity.                                            *)
(***************************************************************************)
\* int(k) for a key of the rounds mapping
IntKeys == DigitTokens \o <<"10">>
IntOf(k) == CHOOSE n \in 0..(Len(IntKeys) - 1) : IntKeys[n + 1] = k

\* the digits of a key, for the comparison of keys as strings
DigitsOf(k) == [i \in DOMAIN NumTokens(IntOf(k)) |-> DigitValue(NumTokens(IntOf(k))[i])]

\* sorted(keys): the keys in the order of str
RECURSIVE sorted_as_strings(_)
sorted_as_strings(ks) ==
    IF ks = {} THEN <<>>
    ELSE LET least == CHOOSE x \in ks :
                         \A y \in ks : x = y \/ LexLess(DigitsOf(x), DigitsOf(y))
         IN  <<least>> \o sorted_as_strings(ks \ {least})

\* sorted(keys, key=lambda k: int(k))
RECURSIVE SortedByInt(_)
SortedByInt(ks) ==
    IF ks = {} THEN <<>>
    ELSE LET least == CHOOSE x \in ks : \A y \in ks : IntOf(x) <= IntOf(y)
         IN  <<least>> \o SortedByInt(ks \ {least})

_canonical_rounds(rounds) ==
    IF rounds.t = "obj"
    THEN LET keys == SortedByInt({rounds.v[i].k : i \in DOMAIN rounds.v})
         IN  JArr([i \in DOMAIN keys |->
                     LET entry == Get(rounds, keys[i], JNull)
                     IN  JObj(<<KV("round", JNum(IntOf(keys[i]))),
                                KV("hostItems", Get(entry, "hostItems", JNull)),
                                KV("guestItems", Get(entry, "guestItems", JNull))>>)])
    ELSE IF rounds.t = "arr" THEN rounds
    ELSE JArr(<<>>)

_compute_integrity(pack) ==
    LET payload == Pop(json_loads(Dumps(pack)).val, "integrity")
        checksum == sha256_hex(canonical_json_bytes(payload))
    IN  SetKey(payload, "integrity",
               JObj(<<KV("checksum", JChars(checksum)),
                      KV("verified", JBool(TRUE))>>))

\* isoformat(utc_now()) at the time of the call
NowIso == JStr("2024-06-01T12:00:00Z")

\* the pack command_start builds from the two decrypted payloads
CombinedPack(question_payload, maths_payload) ==
    JObj(<<KV("version", JStr("jemima-pack-1")),
           KV("meta", JObj(<<
               KV("hostUid", Get(Get(question_payload, "meta", JObj(<<>>)),
                                 "hostUid", JStr("demo-host"))),
               KV("guestUid", Get(Get(question_payload, "meta", JObj(<<>>)),
                                  "guestUid", JStr("demo-guest"))),
               KV("generatedAt", NowIso),
               KV("roomCode", JChars(<<"T", "M", "P">>))>>)),
           KV("rounds", _canonical_rounds(Get(question_payload, "rounds", JNull))),
           KV("maths", Get(maths_payload, "maths", JObj(<<>>)))>>)

\* combined["meta"]["roomCode"] = room_code
WithRoomCode(pack, room_code) ==
    SetKey(pack, "meta", SetKey(Get(pack, "meta", JObj(<<>>)), "roomCode",
                                JChars(room_code)))

(***************************************************************************)
(* The room store (Firestore): per room code the room document, its round  *)
(* sub-documents and the seedSource provenance record merged into it.      *)
(***************************************************************************)
NoSeed == [present |-> FALSE]
NoDoc == [tag |-> "none"]
NoRoom == [exists |-> FALSE, doc |-> NoDoc, rounds |-> {}, seedSource |-> NoSeed]

\* a str that is not empty
Truthy(x) == (x.t = "str" /\ x.v # "") \/ (x.t = "chars" /\ x.v # <<>>)

\* clues_map: position -> clue, for the clues that are strings
CluesMap(maths) ==
    LET clues == Get(maths, "clues", JArr(<<>>))
        items == IF clues.t = "arr" THEN clues.v ELSE <<>>
        kept == {i \in DOMAIN items : items[i].t = "str"}
    IN  [i \in kept |-> items[i]]

\* the text of one reveal: the string itself, or the first non-blank string
\* among its prompt, text and value fields
RevealText(reveal) ==
    IF reveal.t = "str" THEN reveal
    ELSE IF reveal.t # "obj" THEN JNull
    ELSE LET good(k) == Get(reveal, k, JNull).t = "str"
                        /\ Get(reveal, k, JNull).v \notin {"", " "}
         IN  IF good("prompt") THEN Get(reveal, "prompt", JNull)
             ELSE IF good("text") THEN Get(reveal, "text", JNull)
             ELSE IF good("value") THEN Get(reveal, "value", JNull)
             ELSE JNull

RevealsMap(maths) ==
    LET reveals == Get(maths, "reveals", JArr(<<>>))
        items == IF reveals.t = "arr" THEN reveals.v ELSE <<>>
        kept == {i \in DOMAIN items : Truthy(RevealText(items[i]))}
    IN  [i \in kept |-> RevealText(items[i])]

\* base_doc of the transaction
BaseDoc(pack) ==
    LET maths == Get(pack, "maths", JObj(<<>>))
        meta == Get(pack, "meta", JObj(<<>>))
    IN  [tag |-> "room",
         meta |-> [hostUid |-> Get(meta, "hostUid", JNull),
                   guestUid |-> Get(meta, "guestUid", JNull)],
         state |-> "keyroom", round |-> 1, maths |-> maths,
         clues |-> CluesMap(maths), reveals |-> RevealsMap(maths)]

\* the room after txn: the base document if there was none, otherwise the
\* document updated, keeping the uids it already had
AfterTxn(room, pack) ==
    LET base == BaseDoc(pack)
    IN  IF ~room.exists
        THEN [room EXCEPT !.exists = TRUE, !.doc = base]
        ELSE [room EXCEPT !.doc =
                [base EXCEPT !.meta =
                    [hostUid |-> IF Truthy(room.doc.meta.hostUid)
                                 THEN room.doc.meta.hostUid ELSE base.meta.hostUid,
                     guestUid |-> IF Truthy(room.doc.meta.guestUid)
                                  THEN room.doc.meta.guestUid ELSE base.meta.guestUid]]]

\* the entries of pack["rounds"] that _seed_firestore writes
PackRounds(pack) ==
    LET rounds == Get(pack, "rounds", JArr(<<>>)) IN rounds.v

RoundNumber(entry) ==
    LET r == Get(entry, "round", JNum(0)) IN r.v

\* rounds_ref.document(str(rnum)).set({...})
AfterRound(room, entry) ==
    [room EXCEPT !.rounds =
        {d \in room.rounds : d.round # RoundNumber(entry)}
        \cup {[round |-> RoundNumber(entry),
               hostItems |-> Get(entry, "hostItems", JNull),
               guestItems |-> Get(entry, "guestItems", JNull)]}]

\* room_ref.set({"seedSource": seed_source, ...}, merge=True)
AfterSeedSource(room, seed_source) ==
    [room EXCEPT !.exists = TRUE,
                 !.doc = IF room.exists THEN room.doc ELSE [tag |-> "merged"],
                 !.seedSource = seed_source]

PackRef(sealed_name, manifest) ==
    [filename |-> sealed_name, hash |-> manifest.hash,
     createdAt |-> manifest.createdAt, version |-> manifest.version]

SeedSourceOf(code, pr, qm, mm) ==
    [present |-> TRUE, roomCode |-> code, assignedAt |-> NowIso,
     questionPack |-> PackRef(pr.question_sealed, qm),
     mathsPack |-> PackRef(pr.maths_sealed, mm)]

(***************************************************************************)
(* The pools a run can start from.  Each key has one shape: a complete     *)
(* pair of sound envelopes, a complete pair with one unsound envelope, a   *)
(* pair lacking some of its four files, or no file at all.                 *)
(***************************************************************************)
KeyIndex(k) == CHOOSE i \in DOMAIN AllKeys : AllKeys[i] = k

Shapes ==
    {"good", "q_short", "q_notjson", "m_tampered",
     "no_qs", "no_qm", "no_ms", "no_mm", "sealed_only", "none"}

Lacks(shape, n) ==
    \/ shape = "none"
    \/ shape = "no_qs" /\ n.prefix = QUESTIONS_PREFIX /\ n.ext = "sealed"
    \/ shape = "no_qm" /\ n.prefix = QUESTIONS_PREFIX /\ n.ext = "json"
    \/ shape = "no_ms" /\ n.prefix = MATHS_PREFIX /\ n.ext = "sealed"
    \/ shape = "no_mm" /\ n.prefix = MATHS_PREFIX /\ n.ext = "json"
    \/ shape = "sealed_only" /\ n.ext = "json"

\* the envelope in the sealed file PREFIX_<ts>.sealed of a key of that shape
SealedData(shape, prefix, ts) ==
    LET id == 2 * KeyIndex(ts) + (IF prefix = MATHS_PREFIX THEN 1 ELSE 0)
        salt == Bytes(SaltLen, id)
        nonce == Bytes(NonceLen, id)
        sound == _seal_payload(IF prefix = MATHS_PREFIX THEN MathsPayload
                               ELSE QuestionPayload, salt, nonce)
        ct == b64decode(sound.ct_b64)
    IN  IF shape = "q_short" /\ prefix = QUESTIONS_PREFIX
        THEN [sound EXCEPT !.ct_b64 = b64encode([ct EXCEPT !.len = 8])]
        ELSE IF shape = "m_tampered" /\ prefix = MATHS_PREFIX
        THEN [sound EXCEPT !.ct_b64 = b64encode([ct EXCEPT !.tag = FALSE])]
        ELSE IF shape = "q_notjson" /\ prefix = QUESTIONS_PREFIX
        THEN [sound EXCEPT !.ct_b64 =
                 b64encode(aes_gcm_encrypt(derive_key(PASSWORD, salt), nonce,
                                           <<"not", "json">>))]
        ELSE sound

\* path.read_text() and json.loads of it: what the bytes say
Content(bytes) ==
    LET n == bytes.name
        shape == bytes.shape
    IN
    IF n.ext = "sealed" THEN SealedData(shape, n.prefix, n.ts)
    ELSE build_manifest(
                 IF n.prefix = MATHS_PREFIX THEN "maths" ELSE "questions",
                 IF n.prefix = MATHS_PREFIX THEN "jemima-maths-chain-2"
                 ELSE "jemima-questionpack-1",
                 FileName(n.prefix, n.ts, "sealed"),
                 SealedData(shape, n.prefix, n.ts),
                 "2024-01-01T00:00:00Z",
                 IF n.prefix = MATHS_PREFIX THEN "AAA-maths.json"
                 ELSE "AAA-questions.json")

Pool(shapeOf) ==
    [n \in {m \in Names : ~Lacks(shapeOf[m.ts], m)} |->
        File([shape |-> shapeOf[n.ts], name |-> n])]

(***************************************************************************)
(* State.                                                                  *)
(***************************************************************************)
VARIABLES
    newArea,      \* packs/new: file name -> file
    usedArea,     \* packs/used: room code -> directory (exists, files)
    store,        \* the room store: room code -> room
    stdout,       \* the JSON results printed so far
    pc,           \* where each process is in command_start
    calls,        \* how many times each process has started command_start
    status,       \* how the current or last call of each process stands
    pairs,        \* command_start's pairs
    q_manifest,   \* command_start's q_manifest
    m_manifest,   \* command_start's m_manifest
    combined,     \* command_start's combined
    room_code,    \* command_start's room_code
    idx,          \* _move_files: position in transfers
    completed,    \* _move_files: completed, as positions in transfers
    seed_idx,     \* _seed_firestore: position in pack["rounds"]
    used_codes,   \* command_start's used_codes
    drawn_code,   \* _generate_room_code's code: the draw its latest call rejected last
    pre,          \* pool and store as they were when the latest call began
    clock,        \* the wall clock, in ticks
    draws,        \* how many times os.urandom has been drawn from
    c_pack,       \* codec: the pack in hand
    c_stage,      \* codec: what was last done to the pack
    c_report,     \* codec: the last report of audit_pack, and the stage it saw
    c_env,        \* codec: the envelope in hand
    c_made,       \* codec: how the envelope was made
    c_out,        \* codec: what the unseal paths returned for the envelope
    sealer,       \* each thread's run of a sealing script: its locals
    _last_nonce_for_fallback,   \* the module global of each sealing script
    AES,          \* whether PyCryptodome was imported
    sealed_out    \* the sealed file each run has written

\* the state command_start does not touch
codec == <<c_pack, c_stage, c_report, c_env, c_made, c_out>>
sealing == <<sealer, _last_nonce_for_fallback, AES, sealed_out>>
drawing == <<used_codes, drawn_code>>
outside == <<clock, draws, codec, sealing>>
ext == <<outside, drawing>>

vars ==
    <<newArea, usedArea, store, stdout, pc, calls, status, pairs, q_manifest,
      m_manifest, combined, room_code, idx, completed, seed_idx, pre, ext>>

Running == [exit |-> "none", err |-> "none"]
Returned == [exit |-> "returned", err |-> "none"]
Raised(msg) == [exit |-> "raised", err |-> msg]
Snapshot == [newArea |-> newArea, usedArea |-> usedArea, store |-> store]

InitLocals ==
    /\ pc = [p \in Procs |-> "idle"]
    /\ calls = [p \in Procs |-> 0]
    /\ status = [p \in Procs |-> Running]
    /\ pairs = [p \in Procs |-> <<>>]
    /\ q_manifest = [p \in Procs |-> NoDoc]
    /\ m_manifest = [p \in Procs |-> NoDoc]
    /\ combined = [p \in Procs |-> JNull]
    /\ room_code = [p \in Procs |-> NoCode]
    /\ idx = [p \in Procs |-> 0]
    /\ completed = [p \in Procs |-> <<>>]
    /\ seed_idx = [p \in Procs |-> 0]
    /\ used_codes = [p \in Procs |-> {}]
    /\ drawn_code = [p \in Procs |-> NoCode]
    /\ usedArea = [c \in {} |-> EmptyDir]
    /\ store = [c \in Codes |-> NoRoom]
    /\ stdout = <<>>

\* the pools: one key of any shape and no other file, or every key complete
\* and sound but for at most one key that is absent, incomplete or unsound
Pools ==
    {Pool(shapeOf) : shapeOf \in
        {f \in [Keys -> Shapes] :
            \E k \in Keys :
                \/ \A other \in Keys \ {k} : f[other] = "none"
                \/ /\ f[k] \in {"good", "none", "no_mm", "q_short"}
                   /\ \A other \in Keys \ {k} : f[other] = "good"}}

\* the clock starts in a second later than every timestamp of the pool; no
\* random bytes drawn so far are those of a sealed file of the pool
ClockStart == TicksPerSecond * (Len(AllKeys) + 1)
FirstDraw == 2 * Len(AllKeys) + 2

NoEnvelope == [alg |-> "none"]

InitCodec ==
    /\ c_pack = JNull
    /\ c_stage = "none"
    /\ c_report = [stage |-> "none"]
    /\ c_env = NoEnvelope
    /\ c_made = [path |-> "none"]
    /\ c_out = [path |-> "none"]

InitClock ==
    /\ clock = ClockStart
    /\ draws = FirstDraw

\* the threads that run a sealing script, and the scripts
Threads == {1, 2}
Scripts == {"questions", "maths"}
None == [len |-> 0, id |-> 0]
IdleSealer == [pc |-> "idle"]

InitSealing ==
    /\ sealer = [t \in Threads |-> IdleSealer]
    /\ _last_nonce_for_fallback = [s \in Scripts |-> None]
    /\ AES = TRUE
    /\ sealed_out = [t \in Threads |-> NoEnvelope]

InitExt ==
    /\ InitClock
    /\ InitCodec
    /\ InitSealing

Init ==
    /\ InitLocals
    /\ InitExt
    /\ newArea \in Pools
    /\ pre = Snapshot

(***************************************************************************)
(* command_start, one step per file-system or room-store operation.        *)
(***************************************************************************)
\* path.mkdir(parents=True, exist_ok=True) of a directory of packs/used
ensure_dir(used_dir, code) ==
    IF code \in DOMAIN used_dir THEN used_dir
    ELSE [c \in DOMAIN used_dir \cup {code} |->
             IF c = code THEN EmptyDir ELSE used_dir[c]]

\* the source names of _move_files' transfers, in order
Transfers(pr) ==
    <<pr.question_sealed, pr.question_manifest, pr.maths_sealed, pr.maths_manifest>>

\* command_start if it took pairs[0] of an empty list
EmptyPoolExit_IndexError == [status |-> Raised("IndexError"), out |-> <<>>]

\* what command_start does when no pair is found: print and return 0
EmptyPoolExit ==
    [status |-> Returned, out |-> <<[error |-> "no_packs_available"]>>]

\* the call of process p ends, and with it the locals of its functions
Finish(p, how) ==
    /\ pc' = [pc EXCEPT ![p] = "idle"]
    /\ status' = [status EXCEPT ![p] = how]
    /\ q_manifest' = [q_manifest EXCEPT ![p] = NoDoc]
    /\ m_manifest' = [m_manifest EXCEPT ![p] = NoDoc]
    /\ combined' = [combined EXCEPT ![p] = JNull]
    /\ idx' = [idx EXCEPT ![p] = 0]
    /\ completed' = [completed EXCEPT ![p] = <<>>]
    /\ seed_idx' = [seed_idx EXCEPT ![p] = 0]

\* entry of command_start up to the choice of pairs[0]
Discover(p) ==
    /\ pc[p] = "idle"
    /\ calls[p] < MaxCalls
    /\ calls' = [calls EXCEPT ![p] = @ + 1]
    /\ pre' = Snapshot
    /\ pairs' = [pairs EXCEPT ![p] = _discover_pairs(newArea)]
    /\ room_code' = [room_code EXCEPT ![p] = NoCode]
    /\ IF pairs'[p] = <<>>
       THEN /\ stdout' = stdout \o EmptyPoolExit.out
            /\ Finish(p, EmptyPoolExit.status)
       ELSE /\ stdout' = stdout
            /\ pc' = [pc EXCEPT ![p] = "load"]
            /\ status' = [status EXCEPT ![p] = Running]
            /\ UNCHANGED <<q_manifest, m_manifest, combined, idx, completed, seed_idx>>
    /\ UNCHANGED <<newArea, usedArea, store>>
    /\ UNCHANGED ext

\* load both manifests, decrypt both envelopes, recombine and stamp
Load(p) ==
    /\ pc[p] = "load"
    /\ LET pr == pairs[p][1]
           present == \A i \in 1..Len(Transfers(pr)) : Exists(newArea, Transfers(pr)[i])
           question_payload == _decrypt_envelope(Content(newArea[pr.question_sealed].data))
           maths_payload == _decrypt_envelope(Content(newArea[pr.maths_sealed].data))
       IN  IF ~present
           THEN Finish(p, Raised("FileNotFoundError"))
           ELSE IF ~question_payload.ok
           THEN Finish(p, Raised(question_payload.err))
           ELSE IF ~maths_payload.ok
           THEN Finish(p, Raised(maths_payload.err))
           ELSE /\ q_manifest' = [q_manifest EXCEPT ![p] = Content(newArea[pr.question_manifest].data)]
                /\ m_manifest' = [m_manifest EXCEPT ![p] = Content(newArea[pr.maths_manifest].data)]
                /\ combined' = [combined EXCEPT ![p] =
                       _compute_integrity(CombinedPack(question_payload.val,
                                                       maths_payload.val))]
                /\ pc' = [pc EXCEPT ![p] = "codes"]
                /\ UNCHANGED <<status, idx, completed, seed_idx>>
    /\ UNCHANGED <<newArea, usedArea, store, stdout, calls, pairs, room_code, pre>>
    /\ UNCHANGED ext

\* used_codes = _list_used_codes(used_dir)
ListCodes(p) ==
    /\ pc[p] = "codes"
    /\ used_codes' = [used_codes EXCEPT ![p] = _list_used_codes(usedArea)]
    /\ pc' = [pc EXCEPT ![p] = "draw"]
    /\ UNCHANGED <<newArea, usedArea, store, stdout, calls, status, pairs, q_manifest,
                   m_manifest, combined, room_code, idx, completed, seed_idx, pre>>
    /\ drawn_code' = [drawn_code EXCEPT ![p] = NoCode]
    /\ UNCHANGED outside

\* a pass of _generate_room_code's loop that does not return: the code
\* drawn names a used directory and the loop goes round again
DrawAgain(p) ==
    /\ pc[p] = "draw"
    /\ \E drawn \in Codes :
          \E pass \in {loop_pass(drawn, used_codes[p])} :
             /\ pass # "return"
             /\ drawn_code' = [drawn_code EXCEPT ![p] = drawn]
             /\ IF pass = "again"
                THEN UNCHANGED <<pc, status, q_manifest, m_manifest, combined, idx,
                                 completed, seed_idx>>
                ELSE Finish(p, Raised("no room code"))
    /\ UNCHANGED <<newArea, usedArea, store, stdout, calls, pairs, room_code, pre>>
    /\ UNCHANGED <<outside, used_codes>>

\* the pass that returns: the room code is drawn and put into the combined
\* pack
ChooseCode(p) ==
    /\ pc[p] = "draw"
    /\ \E drawn \in _generate_room_code(used_codes[p]) :
          /\ room_code' = [room_code EXCEPT ![p] = drawn]
          /\ combined' = [combined EXCEPT ![p] = WithRoomCode(@, drawn)]
    /\ pc' = [pc EXCEPT ![p] = "mkdir"]
    /\ UNCHANGED <<newArea, usedArea, store, stdout, calls, status, pairs,
                   q_manifest, m_manifest, idx, completed, seed_idx, pre>>
    /\ UNCHANGED <<outside, drawing>>

\* _move_files: ensure_dir(target_dir)
MakeTargetDir(p) ==
    /\ pc[p] = "mkdir"
    /\ usedArea' = ensure_dir(usedArea, room_code[p])
    /\ idx' = [idx EXCEPT ![p] = 1]
    /\ completed' = [completed EXCEPT ![p] = <<>>]
    /\ pc' = [pc EXCEPT ![p] = "move"]
    /\ UNCHANGED <<newArea, store, stdout, calls, status, pairs, q_manifest,
                   m_manifest, combined, room_code, seed_idx, pre>>
    /\ UNCHANGED ext

\* _move_files goes on to the next transfer, or returns to command_start
AdvanceMove(p) ==
    /\ idx' = [idx EXCEPT ![p] = @ + 1]
    /\ pc' = [pc EXCEPT ![p] =
                 IF idx[p] + 1 > Len(Transfers(pairs[p][1])) THEN "seed_txn" ELSE "move"]

\* _move_files: the two `continue` tests of one transfer
CheckTransfer(p) ==
    /\ pc[p] = "move"
    /\ LET src == Transfers(pairs[p][1])[idx[p]]
       IN  IF Exists(usedArea[room_code[p]], src) \/ ~Exists(newArea, src)
           THEN AdvanceMove(p)
           ELSE /\ pc' = [pc EXCEPT ![p] = "copy"]
                /\ UNCHANGED idx
    /\ UNCHANGED <<newArea, usedArea, store, stdout, calls, status, pairs,
                   q_manifest, m_manifest, combined, room_code, completed,
                   seed_idx, pre>>
    /\ UNCHANGED ext

\* _move_files: dest.write_bytes(src.read_bytes()); completed.append(...)
CopyFile(p) ==
    /\ pc[p] = "copy"
    /\ LET src == Transfers(pairs[p][1])[idx[p]]
       IN  /\ Exists(newArea, src)
           /\ usedArea' = [usedArea EXCEPT ![room_code[p]] =
                               WithFile(@, src, newArea[src])]
    /\ completed' = [completed EXCEPT ![p] = Append(@, idx[p])]
    /\ pc' = [pc EXCEPT ![p] = "unlink"]
    /\ UNCHANGED <<newArea, store, stdout, calls, status, pairs, q_manifest,
                   m_manifest, combined, room_code, idx, seed_idx, pre>>
    /\ UNCHANGED ext

\* the copy raises: the source cannot be read (nothing is written), or the
\* write fails after dest was opened, leaving dest cut short
CopyFails(p) ==
    /\ pc[p] = "copy"
    /\ LET src == Transfers(pairs[p][1])[idx[p]]
       IN  \/ UNCHANGED usedArea
           \/ /\ Exists(newArea, src)
              /\ usedArea' = [usedArea EXCEPT ![room_code[p]] =
                                  WithFile(@, src, Truncated(newArea[src]))]
    /\ pc' = [pc EXCEPT ![p] = "rollback"]
    /\ UNCHANGED <<newArea, store, stdout, calls, status, pairs, q_manifest,
                   m_manifest, combined, room_code, idx, completed, seed_idx, pre>>
    /\ UNCHANGED ext

\* _move_files: src.unlink()
UnlinkSource(p) ==
    /\ pc[p] = "unlink"
    /\ LET src == Transfers(pairs[p][1])[idx[p]]
       IN  /\ Exists(newArea, src)
           /\ newArea' = WithoutFile(newArea, src)
    /\ AdvanceMove(p)
    /\ UNCHANGED <<usedArea, store, stdout, calls, status, pairs, q_manifest,
                   m_manifest, combined, room_code, completed, seed_idx, pre>>
    /\ UNCHANGED ext

\* src.unlink() raises
UnlinkFails(p) ==
    /\ pc[p] = "unlink"
    /\ pc' = [pc EXCEPT ![p] = "rollback"]
    /\ UNCHANGED <<newArea, usedArea, store, stdout, calls, status, pairs,
                   q_manifest, m_manifest, combined, room_code, idx, completed,
                   seed_idx, pre>>
    /\ UNCHANGED ext

\* _move_files' except clause: one iteration of the loop over
\* reversed(completed), or the re-raise once the loop is over
Rollback(p) ==
    /\ pc[p] = "rollback"
    /\ IF completed[p] = <<>>
       THEN /\ Finish(p, Raised("move failed"))
            /\ UNCHANGED <<newArea, usedArea>>
       ELSE LET src == Transfers(pairs[p][1])[completed[p][Len(completed[p])]]
                target_dir == usedArea[room_code[p]]
            IN  /\ completed' = [completed EXCEPT ![p] = SubSeq(@, 1, Len(@) - 1)]
                /\ IF Exists(target_dir, src)
                   THEN /\ newArea' = WithFile(newArea, src, target_dir[src])
                        /\ usedArea' = [usedArea EXCEPT ![room_code[p]] =
                                            WithoutFile(@, src)]
                   ELSE UNCHANGED <<newArea, usedArea>>
                /\ UNCHANGED <<pc, status, q_manifest, m_manifest, combined,
                               idx, seed_idx>>
    /\ UNCHANGED <<store, stdout, calls, pairs, room_code, pre>>
    /\ UNCHANGED ext

\* dest.replace(src) raises in the except clause: the error leaves
\* _move_files at once, the files not yet moved back stay where they are
RollbackFails(p) ==
    /\ pc[p] = "rollback"
    /\ completed[p] # <<>>
    /\ Exists(usedArea[room_code[p]],
              Transfers(pairs[p][1])[completed[p][Len(completed[p])]])
    /\ Finish(p, Raised("move failed"))
    /\ UNCHANGED <<newArea, usedArea, store, stdout, calls, pairs, room_code, pre>>
    /\ UNCHANGED ext

\* the room the pack names: pack["meta"]["roomCode"]
RoomOf(pack) == Get(Get(pack, "meta", JObj(<<>>)), "roomCode", JNull).v

SeedPc(pack, i) == IF i > Len(PackRounds(pack)) THEN "seed_final" ELSE "seed_rounds"

\* _seed_firestore: the transaction on the room document
SeedTxn(p) ==
    /\ pc[p] = "seed_txn"
    /\ store' = [store EXCEPT ![RoomOf(combined[p])] = AfterTxn(@, combined[p])]
    /\ seed_idx' = [seed_idx EXCEPT ![p] = 1]
    /\ pc' = [pc EXCEPT ![p] = SeedPc(combined[p], 1)]
    /\ UNCHANGED <<newArea, usedArea, stdout, calls, status, pairs, q_manifest,
                   m_manifest, combined, room_code, idx, completed, pre>>
    /\ UNCHANGED ext

\* _seed_firestore: one iteration of the loop over pack["rounds"]
SeedRound(p) ==
    /\ pc[p] = "seed_rounds"
    /\ LET entry == PackRounds(combined[p])[seed_idx[p]]
       IN  store' = [store EXCEPT ![RoomOf(combined[p])] =
                        IF RoundNumber(entry) = 0 THEN @ ELSE AfterRound(@, entry)]
    /\ seed_idx' = [seed_idx EXCEPT ![p] = @ + 1]
    /\ pc' = [pc EXCEPT ![p] = SeedPc(combined[p], seed_idx[p] + 1)]
    /\ UNCHANGED <<newArea, usedArea, stdout, calls, status, pairs, q_manifest,
                   m_manifest, combined, room_code, idx, completed, pre>>
    /\ UNCHANGED ext

\* _seed_firestore: the merge of seedSource; then command_start prints the
\* result and returns 0
SeedSourceAndReport(p) ==
    /\ pc[p] = "seed_final"
    /\ store' = [store EXCEPT ![RoomOf(combined[p])] =
                    AfterSeedSource(@, SeedSourceOf(room_code[p], pairs[p][1],
                                                    q_manifest[p], m_manifest[p]))]
    /\ stdout' = Append(stdout, [roomCode |-> room_code[p],
                                 questionPack |-> pairs[p][1].question_sealed,
                                 mathsPack |-> pairs[p][1].maths_sealed])
    /\ Finish(p, Returned)
    /\ UNCHANGED <<newArea, usedArea, calls, pairs, room_code, pre>>
    /\ UNCHANGED ext

\* a call of the room store raises (the client, the transaction or a write)
StoreFails(p) ==
    /\ pc[p] \in {"seed_txn", "seed_rounds", "seed_final"}
    /\ Finish(p, Raised("room store write failed"))
    /\ UNCHANGED <<newArea, usedArea, store, stdout, calls, pairs, room_code, pre>>
    /\ UNCHANGED ext

\* the steps of a call once it has begun
Proceed(p) ==
    \/ Load(p)
    \/ ListCodes(p)
    \/ DrawAgain(p)
    \/ ChooseCode(p)
    \/ MakeTargetDir(p)
    \/ CheckTransfer(p)
    \/ CopyFile(p)
    \/ CopyFails(p)
    \/ UnlinkSource(p)
    \/ UnlinkFails(p)
    \/ Rollback(p)
    \/ RollbackFails(p)
    \/ SeedTxn(p)
    \/ SeedRound(p)
    \/ SeedSourceAndReport(p)
    \/ StoreFails(p)

\* `start` run again and again, one invocation at a time
Next == \E p \in {1} : Discover(p) \/ Proceed(p)

Spec == Init /\ [][Next]_vars

\* random.choice draws each character uniformly and independently of the
\* draws before, so a code that would be returned is not missed for ever
SpecFairDraws == Spec /\ \A p \in {1} : WF_vars(ChooseCode(p))

(***************************************************************************)
(* Two `start` invocations at once on a pool with exactly one complete     *)
(* pair and no other file.                                                 *)
(***************************************************************************)
RacePools ==
    {Pool(shapeOf) : shapeOf \in
        {f \in [Keys -> {"good", "none"}] :
            Cardinality({k \in Keys : f[k] = "good"}) = 1}}

InitRace ==
    /\ InitLocals
    /\ InitExt
    /\ newArea \in RacePools
    /\ pre = Snapshot

NextRace == \E p \in Procs : (calls[p] = 0 /\ Discover(p)) \/ Proceed(p)

SpecRace == InitRace /\ [][NextRace]_vars

(***************************************************************************)
(* The `generate` command (command_generate) on packs/new, run again and   *)
(* again, one run at a time, while the clock advances.                     *)
(***************************************************************************)
\* dict.setdefault(key, val)
SetDefault(obj, key, val) == IF HasKey(obj, key) THEN obj ELSE SetKey(obj, key, val)

\* utc_now(): the clock without its fraction of a second
utc_now(ticks) == ticks \div TicksPerSecond
\* isoformat(ts)
isoformat(ts) == JChars(<<"T">> \o NumTokens(ts) \o <<"Z">>)
\* ts.strftime("%Y%m%d_%H%M%S"): fixed width, one key per second, later
\* seconds giving greater keys
strftime(ts) == <<ts>>

\* what AAA-questions.json may hold: the rounds alone, or a whole stamped pack
QuestionTemplates ==
    {JObj(<<KV("rounds", Get(QuestionPayload, "rounds", JNull))>>),
     _compute_integrity(QuestionPayload)}
\* what AAA-maths.json may hold
MathsTemplates ==
    {JObj(<<KV("maths", Get(MathsPayload, "maths", JNull))>>),
     _compute_integrity(MathsPayload)}

\* the body shared by _prepare_question_payload and _prepare_maths_payload
PreparePayload(tpl, version, now) ==
    LET versioned == SetDefault(tpl, "version", JStr(version))
        with_meta == SetDefault(versioned, "meta", JObj(<<>>))
        defaults == SetDefault(SetDefault(Get(with_meta, "meta", JNull),
                                          "hostUid", JStr("demo-host")),
                               "guestUid", JStr("demo-guest"))
        meta == SetKey(SetKey(defaults, "generatedAt", isoformat(now)),
                       "roomCode", JChars(<<"S", "E", "A">>))
    IN  SetKey(with_meta, "meta", meta)

_prepare_question_payload(tpl, now) ==
    PreparePayload(tpl, "jemima-questionpack-1", now)

_prepare_maths_payload(tpl, now) ==
    PreparePayload(tpl, "jemima-maths-chain-2", now)

\* the timestamps of the file names of any of the four kinds
_timestamps_in_directory(directory) ==
    UNION {DOMAIN TimestampMap(directory, prefix, e) :
               prefix \in Prefixes, e \in Exts}

\* the test of command_generate's loop if it looked for the manifest
MissingManifest(directory, timestamps, prefix) ==
    SelectSeq(timestamps,
              LAMBDA ts : ~Exists(directory, FileName(prefix, ts, "json")))

\* SelectSeq(timestamps, ts has no PREFIX_<ts>.sealed in the directory)
MissingSealed(directory, timestamps, prefix) ==
    SelectSeq(timestamps,
              LAMBDA ts : ~Exists(directory, FileName(prefix, ts, "sealed")))

\* missing_questions and missing_maths of a run that reads the clock as `now`
Missing(directory, now) ==
    LET found == sorted(_timestamps_in_directory(directory))
        timestamps == IF found = <<>> THEN <<strftime(now)>> ELSE found
        missing_questions == MissingSealed(directory, timestamps, QUESTIONS_PREFIX)
        missing_maths == MissingSealed(directory, timestamps, MATHS_PREFIX)
    IN  IF missing_questions = <<>> /\ missing_maths = <<>>
        THEN [questions |-> <<strftime(now)>>, maths |-> <<strftime(now)>>]
        ELSE [questions |-> missing_questions, maths |-> missing_maths]

\* the sealed file and the manifest one iteration of a loop of
\* command_generate writes for the i-th timestamp of its list
GeneratedSealed(prefix, tpl, now, draw) ==
    File(_seal_payload(IF prefix = MATHS_PREFIX
                       THEN _prepare_maths_payload(tpl, now)
                       ELSE _prepare_question_payload(tpl, now),
                       Bytes(SaltLen, draw), Bytes(NonceLen, draw)))

GeneratedManifest(prefix, ts, sealed, tpl, now) ==
    File(build_manifest(
             IF prefix = MATHS_PREFIX THEN "maths" ELSE "questions",
             IF prefix = MATHS_PREFIX
             THEN Get(_prepare_maths_payload(tpl, now), "version", JStr(""))
             ELSE Get(_prepare_question_payload(tpl, now), "version", JStr("")),
             FileName(prefix, ts, "sealed"), sealed.data, isoformat(now),
             IF prefix = MATHS_PREFIX THEN "AAA-maths.json"
             ELSE "AAA-questions.json"))

\* position of ts in a list without repetition
IndexOf(list, ts) == CHOOSE i \in DOMAIN list : list[i] = ts

\* os.urandom draws a run may make: two per timestamp it can find
DrawsPerRun == 2 * (NumKeys + MaxRuns + 1)

\* one run of command_generate, from a directory and a number of draws made:
\* the stamp is read from the clock at `stamp`, the payloads are made at
\* `now`; the directory it leaves and the line it prints
command_generate(directory, drawn, q_tpl, m_tpl, stamp, now) ==
    LET missing == Missing(directory, stamp)
        list(prefix) == IF prefix = MATHS_PREFIX THEN missing.maths
                        ELSE missing.questions
        tpl(prefix) == IF prefix = MATHS_PREFIX THEN m_tpl ELSE q_tpl
        draw(prefix, ts) == drawn + 2 * IndexOf(list(prefix), ts)
                            + (IF prefix = MATHS_PREFIX THEN 1 ELSE 0)
        written == UNION {{FileName(prefix, list(prefix)[i], e) :
                               i \in DOMAIN list(prefix), e \in Exts} :
                          prefix \in Prefixes}
        sealed(n) == GeneratedSealed(n.prefix, tpl(n.prefix), now,
                                     draw(n.prefix, n.ts))
        created == [kind \in {k \in {"questions"} : missing.questions # <<>>}
                              \cup {k \in {"maths"} : missing.maths # <<>>} |->
                       IF kind = "maths"
                       THEN FileName(MATHS_PREFIX,
                                     missing.maths[Len(missing.maths)], "sealed")
                       ELSE FileName(QUESTIONS_PREFIX,
                                     missing.questions[Len(missing.questions)],
                                     "sealed")]
    IN  [out_dir |-> [n \in DOMAIN directory \cup written |->
                         IF n \notin written THEN directory[n]
                         ELSE IF n.ext = "sealed" THEN sealed(n)
                         ELSE GeneratedManifest(n.prefix, n.ts, sealed(n),
                                                tpl(n.prefix), now)],
         created |-> created]

\* a run of `generate` on packs/new
Generate ==
    /\ draws < FirstDraw + MaxRuns * DrawsPerRun
    /\ \E q_tpl \in QuestionTemplates, m_tpl \in MathsTemplates,
          later \in {clock, clock + 1} :
          LET run == command_generate(newArea, draws, q_tpl, m_tpl,
                                      utc_now(clock), utc_now(later))
          IN  /\ later <= ClockStart + MaxTicks
              /\ clock' = later
              /\ newArea' = run.out_dir
              /\ stdout' = Append(stdout, run.created)
    /\ draws' = draws + DrawsPerRun
    /\ UNCHANGED <<usedArea, store, pc, calls, status, pairs, q_manifest,
                   m_manifest, combined, room_code, idx, completed, seed_idx, pre,
                   codec, sealing, drawing>>

\* time passes between runs
Tick ==
    /\ clock < ClockStart + MaxTicks
    /\ clock' = clock + 1
    /\ UNCHANGED <<newArea, usedArea, store, stdout, pc, calls, status, pairs,
                   q_manifest, m_manifest, combined, room_code, idx, completed,
                   seed_idx, pre, draws, codec, sealing, drawing>>

NextGenerate == Generate \/ Tick

SpecGenerate == Init /\ [][NextGenerate]_vars

(***************************************************************************)
(* The codec: the integrity stamp and audit, the sealing paths and the     *)
(* unseal paths, as functions of their inputs.                             *)
(***************************************************************************)
\* js(o) of the scripts and of unseal_check
js(o) == Dumps(o)

\* the integrity stamp of the sealing scripts
stamp(pack) ==
    LET payload == Pop(pack, "integrity")
        checksum == sha256_hex(js(payload))
    IN  SetKey(payload, "integrity",
               JObj(<<KV("checksum", JChars(checksum)),
                      KV("verified", JBool(TRUE))>>))

\* isinstance(x, dict), isinstance(x, list), and whether len(x) is defined
IsDict(x) == x.t = "obj"
IsList(x) == x.t = "arr"
Sized(x) == x.t \in {"obj", "arr", "str", "chars"}

\* the exception of audit_pack on `data`, "none" when it returns: .get of
\* a value that is no mapping raises AttributeError, len of a value that has
\* no length raises TypeError
audit_pack_raises(data) ==
    LET meta == Get(data, "meta", JObj(<<>>))
        rounds == Get(data, "rounds", JArr(<<>>))
        m == Get(data, "maths", JObj(<<>>))
        unsized(r, key) == ~Sized(Get(r, key, JArr(<<>>)))
    IN  IF ~IsDict(meta) THEN "AttributeError"
        ELSE IF Get(data, "version", JNull) = JStr("jemima-pack-1") /\ ~Sized(rounds)
        THEN "TypeError"
        ELSE IF /\ Get(data, "version", JNull) = JStr("jemima-pack-1")
                /\ IsList(rounds)
                /\ \E i \in DOMAIN rounds.v : ~IsDict(rounds.v[i])
        THEN "AttributeError"
        ELSE IF /\ Get(data, "version", JNull) = JStr("jemima-pack-1")
                /\ IsList(rounds)
                /\ \E i \in DOMAIN rounds.v :
                      unsized(rounds.v[i], "hostItems") \/ unsized(rounds.v[i], "guestItems")
        THEN "TypeError"
        ELSE IF HasKey(data, "maths") /\ ~IsDict(m) THEN "AttributeError"
        ELSE IF /\ HasKey(data, "maths")
                /\ IsList(Get(m, "beats", JArr(<<>>)))
                /\ unsized(m, "answers")
        THEN "TypeError"
        ELSE IF ~IsDict(Get(data, "integrity", JObj(<<>>))) THEN "AttributeError"
        ELSE "none"

\* audit_pack if it hashed the pack with its integrity field left in
audit_pack_keeping_integrity(data) ==
    LET meta == Get(data, "meta", JObj(<<>>))
        stored == Get(Get(data, "integrity", JObj(<<>>)), "checksum", JNull)
        raised == audit_pack_raises(data)
    IN  IF raised # "none" THEN [ok |-> FALSE, err |-> raised]
        ELSE [ok |-> TRUE, err |-> "none",
              version |-> Get(data, "version", JNull),
              meta |-> [roomCode |-> Get(meta, "roomCode", JNull),
                        generatedAt |-> Get(meta, "generatedAt", JNull)],
              checksum_ok |-> stored.t = "chars" /\ stored.v = sha256_hex(js(data))]

\* audit_pack: the exception it raises, or its report: version, meta and
\* checksum_ok (the counts of rounds and items and maths_ok are left out)
audit_pack(data) ==
    LET meta == Get(data, "meta", JObj(<<>>))
        clone == Pop(data, "integrity")
        canonical == js(clone)
        stored == Get(Get(data, "integrity", JObj(<<>>)), "checksum", JNull)
        raised == audit_pack_raises(data)
    IN  IF raised # "none" THEN [ok |-> FALSE, err |-> raised]
        ELSE [ok |-> TRUE, err |-> "none",
              version |-> Get(data, "version", JNull),
              meta |-> [roomCode |-> Get(meta, "roomCode", JNull),
                        generatedAt |-> Get(meta, "generatedAt", JNull)],
              checksum_ok |-> stored.t = "chars" /\ stored.v = sha256_hex(canonical)]

\* PBKDF2_ROUNDS of the sealing scripts and of unseal_check
PBKDF2_ROUNDS == 150000

\* pbkdf2 if its round count had not followed the one the packs are sealed with
pbkdf2_stale_rounds(password, salt) ==
    [pw |-> password, salt |-> salt, iter |-> PBKDF2_ROUNDS - 50000]

\* derive_key of the sealing scripts, pbkdf2 of unseal_check
pbkdf2(password, salt) ==
    [pw |-> password, salt |-> salt, iter |-> PBKDF2_ROUNDS]

\* derive_key of encrypt_packs
derive_key_iterations(password, salt, iterations) ==
    [pw |-> password, salt |-> salt, iter |-> iterations]

\* the envelope the sealing scripts write
ScriptEnvelope(salt, nonce, ct) ==
    [alg |-> "AES-GCM",
     pbkdf2 |-> <<"PBKDF2-HMAC-SHA256/">> \o NumTokens(PBKDF2_ROUNDS),
     salt_b64 |-> b64encode(salt),
     nonce_b64 |-> b64encode(nonce),
     ct_b64 |-> b64encode(ct)]

\* seal of encrypt_questions_pack with PyCryptodome at hand
seal(pack, salt, nonce) ==
    LET payload == stamp(pack)
        key == pbkdf2(PASSWORD, salt)
    IN  ScriptEnvelope(salt, nonce, aes_gcm_encrypt(key, nonce, js(payload)))

\* the pack encrypt_full_pack seals, or the exception it ends with: the test
\* "roomCode" not in meta raises TypeError on a value that is no container
\* and setdefault raises AttributeError on a container that is no mapping
full_pack(pack) ==
    LET versioned == SetKey(pack, "version", JStr("jemima-pack-1"))
        meta == Get(versioned, "meta", JObj(<<>>))
        defaults == SetDefault(SetDefault(SetDefault(meta,
                        "generatedAt", JStr("1970-01-01T00:00:00Z")),
                        "hostUid", JStr("demo-host")),
                        "guestUid", JStr("demo-guest"))
        holds == CASE IsDict(meta) -> HasKey(meta, "roomCode")
                   [] IsList(meta) -> \E i \in DOMAIN meta.v : meta.v[i] = JStr("roomCode")
                   [] meta.t = "str" -> meta.v = "roomCode"
                   [] OTHER -> FALSE
    IN  IF ~Sized(meta) THEN Err("TypeError")
        ELSE IF ~holds
        THEN Err("meta.roomCode is required (3-letter uppercase).")
        ELSE IF ~IsDict(meta) THEN Err("AttributeError")
        ELSE Ok(stamp(SetKey(versioned, "meta", defaults)))

\* main of encrypt_full_pack
encrypt_full_pack(pack, salt, nonce) ==
    LET sealed == full_pack(pack)
    IN  IF ~sealed.ok THEN sealed
        ELSE Ok(ScriptEnvelope(salt, nonce,
                    aes_gcm_encrypt(pbkdf2(PASSWORD, salt), nonce, js(sealed.val))))

\* canonicalise_json of encrypt_packs, of a file holding the document
canonicalise_json(data) == Dumps(json_loads(Dumps(data)).val)

build_envelope(ciphertext, salt, nonce, iterations, original_name) ==
    [alg |-> "aes-256-gcm+pbkdf2-sha256",
     salt_b64 |-> b64encode(salt),
     nonce_b64 |-> b64encode(nonce),
     ct_b64 |-> b64encode(ciphertext),
     pbkdf2_iterations |-> iterations,
     original |-> original_name]

\* encrypt_file of encrypt_packs: the envelope it writes
encrypt_file(data, password, iterations, salt, nonce) ==
    LET plaintext == canonicalise_json(data)
        key == derive_key_iterations(password, salt, iterations)
    IN  build_envelope(aes_gcm_encrypt(key, nonce, plaintext), salt, nonce,
                       iterations, "pack.json")

\* AesGcmCipher.decrypt of unseal_check: the tag is set with its own length,
\* which the cipher refuses when it is 0, and checked by EVP_DecryptFinal_ex
AesGcmCipher_decrypt(key, nonce, ciphertext_with_tag, tag_len) ==
    IF tag_len = 0
    THEN Err("EVP_CIPHER_CTX_ctrl set tag failed")
    ELSE IF /\ tag_len = TagLen
            /\ ciphertext_with_tag.key = key
            /\ ciphertext_with_tag.nonce = nonce
            /\ ciphertext_with_tag.tag
         THEN Ok(ciphertext_with_tag.pt)
         ELSE Err("EVP_DecryptFinal_ex verification failed")

\* main of unseal_check on an envelope: ct[:-16] and ct[-16:] are taken
\* whatever the length of ct, then the cipher is called; `decrypted` is what
\* the cipher returns, `report` what audit_pack makes of the document, and
\* err the exception main ends with
unseal_check(env) ==
    LET salt == b64decode(env.salt_b64)
        nonce == b64decode(env.nonce_b64)
        ct == b64decode(env.ct_b64)
        tag_len == IF ct.len < TagLen THEN ct.len ELSE TagLen
        key == pbkdf2(PASSWORD, salt)
        plaintext == AesGcmCipher_decrypt(key, nonce, ct, tag_len)
        data == json_loads(plaintext.val)
        report == audit_pack(data.val)
    IN  IF ~plaintext.ok
        THEN [ok |-> FALSE, err |-> plaintext.err, decrypted |-> plaintext]
        ELSE IF ~data.ok
             THEN [ok |-> FALSE, err |-> data.err, decrypted |-> plaintext]
             ELSE [ok |-> report.ok, err |-> report.err, decrypted |-> plaintext,
                   report |-> report]

(***************************************************************************)
(* The codec applied to packs: a pack is stamped, perhaps changed, audited *)
(* and sealed along one of the sealing paths; the envelope is perhaps      *)
(* damaged, then unsealed along both unseal paths.                         *)
(***************************************************************************)
workflow == <<newArea, usedArea, store, stdout, pc, calls, status, pairs, q_manifest,
              m_manifest, combined, room_code, idx, completed, seed_idx, pre, drawing>>

\* a pack whose integrity field is left over from an earlier content
StalePack ==
    SetKey(QuestionPayload, "integrity",
           JObj(<<KV("checksum", JStr("stale")), KV("verified", JBool(TRUE))>>))

\* integrity fields that hold no checksum: a string, null, an empty mapping
NoChecksum == {JStr("x"), JNull, JObj(<<>>)}

CodecPacks ==
    {QuestionPayload, MathsPayload, StalePack,
     CombinedPack(QuestionPayload, MathsPayload)}
    \cup {SetKey(QuestionPayload, "integrity", w) : w \in NoChecksum}

\* the values a field is changed to: a scalar, or for a mapping also the
\* mapping with its first entry changed
MutationsOf(val) ==
    {JStr("x"), JNum(7), JNull}
    \cup (IF val.t = "obj" /\ val.v # <<>>
          THEN {SetKey(val, val.v[1].k, JStr("x"))} ELSE {})

StampPaths == {"workflow", "script"}
SealPaths == {"workflow", "encrypt_packs", "questions", "full"}
\* the iteration counts given to encrypt_packs: its default and another
OtherIterations == 200000
Iterations == {PBKDF2_ITERATIONS, OtherIterations}
Tampers == {"short", "tag"}
ShortLen == 8

InitCodecPack ==
    /\ c_pack \in CodecPacks /\ c_stage = "raw"
    /\ c_report = [stage |-> "none"]
    /\ c_env = NoEnvelope
    /\ c_made = [path |-> "none"]
    /\ c_out = [path |-> "none"]

InitCodecSpec == /\ InitLocals /\ InitClock /\ InitCodecPack /\ InitSealing
                 /\ newArea = EmptyDir /\ pre = Snapshot

CodecStamp ==
    /\ c_stage = "raw" /\ c_env = NoEnvelope
    /\ \E path \in StampPaths :
          c_pack' = IF path = "workflow" THEN _compute_integrity(c_pack)
                    ELSE stamp(c_pack)
    /\ c_stage' = "stamped"
    /\ UNCHANGED <<workflow, clock, draws, sealing, c_report, c_env, c_made, c_out>>

\* the value of one field other than integrity is changed, no stamp follows
CodecMutate ==
    /\ c_stage = "stamped" /\ c_env = NoEnvelope
    /\ \E i \in DOMAIN c_pack.v :
          \E w \in MutationsOf(c_pack.v[i].v) :
             /\ c_pack.v[i].k # "integrity"
             /\ c_pack.v[i].v # w
             /\ c_pack' = SetKey(c_pack, c_pack.v[i].k, w)
    /\ c_stage' = "mutated"
    /\ UNCHANGED <<workflow, clock, draws, sealing, c_report, c_env, c_made, c_out>>

CodecAudit ==
    /\ c_report' = [stage |-> c_stage, report |-> audit_pack(c_pack)]
    /\ c_report' # c_report
    /\ UNCHANGED <<workflow, clock, draws, sealing, c_pack, c_stage, c_env, c_made, c_out>>

\* the envelope a sealing path makes of the pack, or the path's exit
Sealed(path, iterations, salt, nonce) ==
    CASE path = "workflow" ->
            IF IsDict(Get(c_pack, "meta", JObj(<<>>)))
            THEN Ok(_seal_payload(c_pack, salt, nonce))
            ELSE Err("AttributeError")
      [] path = "encrypt_packs" ->
            Ok(encrypt_file(c_pack, PASSWORD, iterations, salt, nonce))
      [] path = "questions" -> Ok(seal(c_pack, salt, nonce))
      [] path = "full" -> encrypt_full_pack(c_pack, salt, nonce)

\* the document a sealing path encrypts
SealedDocument(path) ==
    CASE path \in {"workflow", "encrypt_packs"} -> c_pack
      [] path = "questions" -> stamp(c_pack)
      [] path = "full" -> full_pack(c_pack).val

CodecSeal ==
    /\ c_env = NoEnvelope
    /\ \E path \in SealPaths, iterations \in Iterations :
          LET made == Sealed(path, iterations, Bytes(SaltLen, 1), Bytes(NonceLen, 2))
          IN  /\ path # "encrypt_packs" => iterations = PBKDF2_ITERATIONS
              /\ made.ok
              /\ c_env' = made.val
              /\ c_made' = [path |-> path, iterations |-> iterations,
                            tamper |-> "none",
                            plaintext |-> Dumps(SealedDocument(path))]
    /\ UNCHANGED <<workflow, clock, draws, sealing, c_pack, c_stage, c_report, c_out>>

\* the envelope's ct_b64 is cut to 8 bytes, or a byte of its tag is changed
CodecTamper ==
    /\ c_env # NoEnvelope /\ c_made.tamper = "none" /\ c_out.path = "none"
    /\ \E kind \in Tampers :
          LET ct == b64decode(c_env.ct_b64)
              cut == IF kind = "short" THEN [ct EXCEPT !.len = ShortLen]
                     ELSE [ct EXCEPT !.tag = FALSE]
          IN  /\ c_env' = [c_env EXCEPT !.ct_b64 = b64encode(cut)]
              /\ c_made' = [c_made EXCEPT !.tamper = kind]
    /\ UNCHANGED <<workflow, clock, draws, sealing, c_pack, c_stage, c_report, c_out>>

CodecUnseal ==
    /\ c_env # NoEnvelope /\ c_out.path = "none"
    /\ c_out' = [path |-> "done",
                 _decrypt_envelope |-> _decrypt_envelope(c_env),
                 unseal_check |-> unseal_check(c_env)]
    /\ UNCHANGED <<workflow, clock, draws, sealing, c_pack, c_stage, c_report, c_env, c_made>>

NextCodec ==
    \/ CodecStamp \/ CodecMutate \/ CodecAudit
    \/ CodecSeal \/ CodecTamper \/ CodecUnseal

SpecCodec == InitCodecSpec /\ [][NextCodec]_vars

(***************************************************************************)
(* The sealing scripts encrypt_questions_pack and encrypt_maths_pack:      *)
(* normalisation and validation, then the seal.  must(cond, msg) raises    *)
(* SystemExit(msg); a result is ok with the value or carries what was      *)
(* raised.                                                                 *)
(***************************************************************************)
\* isinstance(x, str), and isinstance(x, str) and x.strip()
IsStr(x) == x.t \in {"str", "chars"}
NonBlank(x) ==
    \/ x.t = "str" /\ x.v \notin {"", " "}
    \/ x.t = "chars" /\ \E i \in DOMAIN x.v : x.v[i] # " "

\* bool(x) of a JSON value
Bool(x) ==
    CASE x.t = "null" -> FALSE
      [] x.t = "bool" -> x.v
      [] x.t = "num" -> x.v # 0
      [] x.t = "str" -> x.v # ""
      [] OTHER -> x.v # <<>>

\* F(x) for x the value of e, which is computed once
Strict(e, F(_)) == CHOOSE y \in {F(x) : x \in {e}} : TRUE

\* the first result that is not ok, or the last one
FirstFailure(results) ==
    Strict(results, LAMBDA rs :
        IF \E i \in DOMAIN rs : ~rs[i].ok
        THEN rs[CHOOSE i \in DOMAIN rs : ~rs[i].ok /\ \A j \in 1..(i - 1) : rs[j].ok]
        ELSE rs[Len(rs)])

\* what .get or `in` raises on a value that is no mapping
NoMapping(x) == IF Sized(x) THEN Err("AttributeError") ELSE Err("TypeError")

convert_item_if_needed(item) ==
    IF ~IsDict(item) THEN NoMapping(item)
    ELSE IF HasKey(item, "prompt") /\ HasKey(item, "options") /\ HasKey(item, "correct")
    THEN LET prompt == Get(item, "prompt", JNull)
             options == Get(item, "options", JNull)
         IN  IF ~(IsStr(prompt) /\ NonBlank(prompt))
             THEN Err("Item prompt missing/empty")
             ELSE IF ~(IsList(options) /\ Len(options.v) = 2)
             THEN Err("Item needs exactly 2 options")
             ELSE IF Get(item, "correct", JNull) \notin {JStr("A"), JStr("B")}
             THEN Err("Item correct must be 'A' or 'B'")
             ELSE Ok(item)
    ELSE LET q == Get(item, "question", JNull)
             ca == Get(item, "correct_answer", JNull)
             ds == Get(item, "distractors", JObj(<<>>))
             preferred == IF Bool(Get(ds, "medium", JNull)) THEN Get(ds, "medium", JNull)
                          ELSE IF Bool(Get(ds, "easy", JNull)) THEN Get(ds, "easy", JNull)
                          ELSE Get(ds, "hard", JNull)
             b == IF Bool(preferred) THEN preferred ELSE ds.v[1].v
         IN  IF ~(IsStr(q) /\ NonBlank(q)) THEN Err("Legacy item missing 'question'")
             ELSE IF ~(IsStr(ca) /\ NonBlank(ca))
             THEN Err("Legacy item missing 'correct_answer'")
             ELSE IF ~IsDict(ds) THEN Err("AttributeError")
             ELSE IF ~Bool(preferred) /\ ds.v = <<>>
             THEN Err("Legacy item has no usable distractor")
             ELSE IF ~(IsStr(b) /\ NonBlank(b)) THEN Err("Chosen distractor invalid")
             ELSE Ok(JObj(<<KV("prompt", q), KV("options", JArr(<<ca, b>>)),
                            KV("correct", JStr("A"))>>))

\* str(n) of a round number, and whether n in (1, 2, 3, 4, 5)
RoundKey(n) == IF n.t = "bool" THEN "True" ELSE DigitTokens[n.v + 1]
IsRoundNumber(n) == (n.t = "num" /\ n.v \in 1..5) \/ n = JBool(TRUE)

\* out[str(n)] = ... for the rounds of a list, one after the other
RECURSIVE RoundsOfList(_, _)
RoundsOfList(rs, out) ==
    IF rs = <<>> THEN Ok(out)
    ELSE LET r == rs[1]
             n == Get(r, "round", JNull)
         IN  IF ~IsDict(r) THEN Err("AttributeError")
             ELSE IF ~IsRoundNumber(n)
             THEN Err("Each round in list must have 'round' integer 1..5")
             ELSE RoundsOfList(Tail(rs), SetKey(out, RoundKey(n), Pop(r, "round")))

normalize_rounds(rounds_in) ==
    IF IsDict(rounds_in) THEN Ok(rounds_in)
    ELSE IF IsList(rounds_in) THEN RoundsOfList(rounds_in.v, JObj(<<>>))
    ELSE Err("rounds must be an object or array")

RoundKeys == <<"1", "2", "3", "4", "5">>
Sides == <<"hostItems", "guestItems">>

\* rd[side] = [convert_item_if_needed(it) for it in items] of one side
NormalizeSide(rd, side) ==
    Strict(Get(rd, side, JNull), LAMBDA items :
        IF ~(IsList(items) /\ Len(items.v) = 3) THEN Err("Round {key}: need 3 {side}")
        ELSE Strict(<<convert_item_if_needed(items.v[1]), convert_item_if_needed(items.v[2]),
                      convert_item_if_needed(items.v[3])>>, LAMBDA converted :
                 Strict(FirstFailure(converted), LAMBDA first :
                     IF ~first.ok THEN first
                     ELSE Ok(SetKey(rd, side,
                                    JArr([i \in DOMAIN converted |-> converted[i].val]))))))

\* the body of normalize_pack's loop for one round
NormalizeRound(rounds, key) ==
    Strict(Get(rounds, key, JNull), LAMBDA rd :
        IF ~HasKey(rounds, key) THEN Err("Questions: missing round {key}")
        ELSE IF ~IsDict(rd) THEN NoMapping(rd)
        ELSE Strict(NormalizeSide(rd, Sides[1]), LAMBDA host :
                 IF ~host.ok THEN host
                 ELSE Strict(NormalizeSide(host.val, Sides[2]), LAMBDA guest :
                          IF ~guest.ok THEN guest
                          ELSE Ok(Pop(guest.val, "interlude")))))

RECURSIVE NormalizeRounds(_, _)
NormalizeRounds(rounds, i) ==
    IF i > Len(RoundKeys) THEN Ok(rounds)
    ELSE Strict(NormalizeRound(rounds, RoundKeys[i]), LAMBDA rd :
             IF ~rd.ok THEN rd
             ELSE Strict(SetKey(rounds, RoundKeys[i], rd.val), LAMBDA next :
                      NormalizeRounds(next, i + 1)))

QuestionsVersions == {"jemima-questions-1", "jemima-questions-2"}

normalize_pack(pack, now) ==
    LET version == Get(pack, "version", JNull)
        versioned == IF version.t = "str" /\ version.v \in QuestionsVersions THEN pack
                     ELSE SetKey(pack, "version", JStr("jemima-questions-1"))
        given == Get(pack, "meta", JNull)
        meta == IF Bool(given) THEN given ELSE JObj(<<>>)
        stamped == IF HasKey(meta, "generatedAt") THEN meta
                   ELSE SetKey(meta, "generatedAt", isoformat(now))
        defaults == SetDefault(SetDefault(stamped, "hostUid", JStr("demo-host")),
                               "guestUid", JStr("demo-guest"))
        with_meta == SetKey(versioned, "meta", defaults)
    IN  IF ~IsDict(meta) THEN Err("TypeError")
        ELSE Strict(normalize_rounds(Get(pack, "rounds", JNull)), LAMBDA rounds :
                 IF ~rounds.ok THEN rounds
                 ELSE Strict(NormalizeRounds(rounds.val, 1), LAMBDA normalized :
                          IF ~normalized.ok THEN normalized
                          ELSE Ok(SetKey(with_meta, "rounds", normalized.val))))

\* validate_final's checks of one item
ValidateItem(it) ==
    LET prompt == Get(it, "prompt", JNull)
        opts == Get(it, "options", JNull)
    IN  IF ~IsDict(it) THEN NoMapping(it)
        ELSE IF ~(IsStr(prompt) /\ NonBlank(prompt)) THEN Err("Prompt missing")
        ELSE IF ~(/\ IsList(opts) /\ Len(opts.v) = 2
                  /\ \A i \in DOMAIN opts.v : IsStr(opts.v[i]) /\ NonBlank(opts.v[i]))
        THEN Err("Options must be two non-empty strings")
        ELSE IF Get(it, "correct", JNull) \notin {JStr("A"), JStr("B")}
        THEN Err("correct must be 'A' or 'B'")
        ELSE Ok(it)

\* validate_final's checks of one side of one round
ValidateSide(rd, side) ==
    Strict(Get(rd, side, JNull), LAMBDA items :
        IF ~(IsList(items) /\ Len(items.v) = 3)
        THEN Err("Round {n}: must have 3 {side}")
        ELSE FirstFailure(<<ValidateItem(items.v[1]), ValidateItem(items.v[2]),
                            ValidateItem(items.v[3])>>))

ValidateRound(rounds, n) ==
    Strict(Get(rounds, n, JNull), LAMBDA rd :
        IF rd = JNull THEN Err("Missing round {n}")
        ELSE IF ~IsDict(rd) THEN NoMapping(rd)
        ELSE FirstFailure(<<ValidateSide(rd, Sides[1]), ValidateSide(rd, Sides[2])>>))

validate_final(pack) ==
    IF Get(pack, "version", JNull) # JStr("jemima-questions-1")
    THEN Err("Questions: version must be 'jemima-questions-1'")
    ELSE Strict(Get(pack, "rounds", JNull), LAMBDA rounds :
             Strict(FirstFailure(<<ValidateRound(rounds, RoundKeys[1]),
                                   ValidateRound(rounds, RoundKeys[2]),
                                   ValidateRound(rounds, RoundKeys[3]),
                                   ValidateRound(rounds, RoundKeys[4]),
                                   ValidateRound(rounds, RoundKeys[5])>>),
                    LAMBDA checked : IF ~checked.ok THEN checked ELSE Ok(pack)))

\* room_ok: three capital letters
Capitals == {"A", "C", "E", "S", "T"}
room_ok(s) ==
    /\ s.t = "chars" /\ Len(s.v) = 3
    /\ \A i \in DOMAIN s.v : s.v[i] \in Capitals

ALLOWED_VERSIONS == {JStr("jemima-maths-chain-2")}
DEFAULT_VERSION == JStr("jemima-maths-chain-2")

\* validate_chain_pack's check of one reveal
ValidateReveal(reveal) ==
    LET field(k) == IF IsStr(Get(reveal, k, JNull)) THEN Get(reveal, k, JNull) ELSE JNull
        txt == IF Bool(field("prompt")) THEN field("prompt")
               ELSE IF Bool(field("text")) THEN field("text")
               ELSE field("value")
    IN  IF IsStr(reveal)
        THEN IF NonBlank(reveal) THEN Ok(reveal) ELSE Err("Maths: reveal {idx} empty.")
        ELSE IF IsDict(reveal)
        THEN IF Bool(txt) /\ NonBlank(txt) THEN Ok(reveal)
             ELSE Err("Maths: reveal {idx} missing text.")
        ELSE Err("Maths: reveal {idx} must be string or object.")

validate_chain_pack(pack) ==
    LET given == Get(pack, "maths", JNull)
        maths == IF Bool(given) THEN given ELSE JObj(<<>>)
        clues == Get(maths, "clues", JNull)
        reveals == Get(maths, "reveals", JNull)
        clue_checks == [i \in DOMAIN clues.v |->
                           IF IsStr(clues.v[i]) /\ NonBlank(clues.v[i]) THEN Ok(clues.v[i])
                           ELSE Err("Maths: clue {idx} missing or empty.")]
        reveal_checks == [i \in DOMAIN reveals.v |-> ValidateReveal(reveals.v[i])]
    IN  IF Get(pack, "version", JNull) # JStr("jemima-maths-chain-2")
        THEN Err("Wrong version for maths pack.")
        ELSE IF ~IsDict(maths) THEN Err("AttributeError")
        ELSE IF ~(IsList(clues) /\ Len(clues.v) = 5)
        THEN Err("Maths: need exactly 5 clues.")
        ELSE IF ~(IsList(reveals) /\ Len(reveals.v) = 5)
        THEN Err("Maths: need exactly 5 reveals.")
        ELSE IF ~FirstFailure(clue_checks).ok THEN FirstFailure(clue_checks)
        ELSE IF ~FirstFailure(reveal_checks).ok THEN FirstFailure(reveal_checks)
        ELSE IF ~(IsStr(Get(maths, "question", JNull))
                  /\ NonBlank(Get(maths, "question", JNull)))
        THEN Err("Maths: question missing.")
        ELSE IF Get(maths, "answer", JNull).t \notin {"num", "bool"}
        THEN Err("Maths: answer must be an integer.")
        ELSE Ok(pack)

\* main of encrypt_maths_pack up to the integrity stamp: version, meta,
\* validate_chain_pack
maths_checked(pack, now) ==
    LET given_version == Get(pack, "version", JNull)
        ver == IF Bool(given_version) THEN given_version ELSE DEFAULT_VERSION
        versioned == SetKey(pack, "version", ver)
        given == Get(pack, "meta", JNull)
        meta == IF Bool(given) THEN given ELSE JObj(<<>>)
        code == Get(meta, "roomCode", JNull)
        stamped == IF HasKey(meta, "generatedAt") THEN meta
                   ELSE SetKey(meta, "generatedAt", isoformat(now))
        defaults == SetDefault(SetDefault(stamped, "hostUid", JStr("demo-host")),
                               "guestUid", JStr("demo-guest"))
        with_meta == SetKey(versioned, "meta", defaults)
    IN  IF ver \notin ALLOWED_VERSIONS THEN Err("Unsupported version: {ver}")
        ELSE IF ~IsDict(meta) THEN Err("AttributeError")
        ELSE IF Bool(code) /\ ~IsStr(code) THEN Err("TypeError")
        ELSE IF ~room_ok(code)
        THEN Err("meta.roomCode is required (3 uppercase letters, e.g. 'CAT').")
        ELSE validate_chain_pack(with_meta)

\* main of encrypt_questions_pack if it called validate_final after seal
questions_checked_late_validation(pack, now) == normalize_pack(pack, now)

\* main of encrypt_questions_pack up to the call of seal
questions_checked(pack, now) ==
    Strict(normalize_pack(pack, now), LAMBDA normalized :
        IF ~normalized.ok THEN normalized
        ELSE Strict(normalized.val, LAMBDA pk : validate_final(pk)))

\* the packs given to the sealing scripts
Item(prompt) ==
    JObj(<<KV("prompt", JStr(prompt)), KV("options", JArr(<<JStr("a"), JStr("b")>>)),
           KV("correct", JStr("A"))>>)
LegacyItem(question) ==
    JObj(<<KV("question", JStr(question)), KV("correct_answer", JStr("a")),
           KV("distractors", JObj(<<KV("easy", JStr("b"))>>))>>)
NumberedItem ==
    JObj(<<KV("prompt", JStr("p")), KV("options", JArr(<<JNum(1), JNum(2)>>)),
           KV("correct", JStr("A"))>>)
RoundOf(first) ==
    JObj(<<KV("hostItems", JArr(<<first, Item("p2"), Item("p3")>>)),
           KV("guestItems", JArr(<<Item("p4"), LegacyItem("q5"), Item("p6")>>))>>)
RoundsWith(first, keys) ==
    JObj([i \in DOMAIN keys |-> KV(keys[i], RoundOf(IF i = 1 THEN first ELSE Item("p1")))])
ScriptMeta == JObj(<<KV("roomCode", JChars(<<"C", "A", "T">>))>>)
QuestionsPack(version, rounds) ==
    JObj(<<KV("version", JStr(version)), KV("meta", ScriptMeta), KV("rounds", rounds)>>)

\* legacy items by their distractors: each of the preferred keys alone, all
\* of them, another key only, none, and preferred keys whose value is unusable
LegacyWith(ds) ==
    JObj(<<KV("question", JStr("q1")), KV("correct_answer", JStr("a")),
           KV("distractors", ds)>>)
Distractors ==
    {JObj(<<KV("medium", JStr("m"))>>),
     JObj(<<KV("hard", JStr("h"))>>),
     JObj(<<KV("hard", JStr("h")), KV("easy", JStr("e")), KV("medium", JStr("m"))>>),
     JObj(<<KV("hard", JStr("h")), KV("easy", JStr("e"))>>),
     JObj(<<KV("tricky", JStr("t"))>>),
     JObj(<<>>),
     JObj(<<KV("medium", JStr("")), KV("easy", JStr("e"))>>),
     JObj(<<KV("medium", JStr("")), KV("tricky", JStr("t"))>>),
     JObj(<<KV("medium", JNum(5)), KV("easy", JStr("e"))>>),
     JObj(<<KV("tricky", JStr(" "))>>)}
LegacyItems ==
    {LegacyWith(ds) : ds \in Distractors}
    \cup {JObj(<<KV("question", JStr("q1")), KV("correct_answer", JStr("a"))>>)}

QuestionsInputs ==
    {QuestionsPack("jemima-questions-1", RoundsWith(it, RoundKeys)) : it \in LegacyItems}
    \cup
    {QuestionsPack("jemima-questions-1", RoundsWith(Item("p1"), RoundKeys \o <<"6">>)),
     Pop(QuestionsPack("jemima-questions-1", RoundsWith(Item("p1"), RoundKeys)), "version"),
     QuestionsPack("jemima-questions-1", RoundsWith(Item("p1"), RoundKeys)),
     QuestionsPack("jemima-questionpack-1", RoundsWith(LegacyItem("q1"), RoundKeys)),
     QuestionsPack("jemima-questions-1",
                   JArr([i \in DOMAIN RoundKeys |->
                            SetKey(RoundOf(Item("p1")), "round", JNum(i))])),
     QuestionsPack("jemima-questions-2", RoundsWith(Item("p1"), RoundKeys)),
     QuestionsPack("jemima-questions-1", RoundsWith(Item("p1"), SubSeq(RoundKeys, 1, 4))),
     QuestionsPack("jemima-questions-1", RoundsWith(NumberedItem, RoundKeys)),
     QuestionsPack("jemima-questions-1", RoundsWith(JStr("p1"), RoundKeys)),
     QuestionsPack("jemima-questions-1", JNull)}

MathsPack(version, meta, clues, answer) ==
    JObj(<<KV("version", version), KV("meta", meta),
           KV("maths", JObj(<<KV("question", JStr("sum?")), KV("answer", answer),
                              KV("clues", JArr([i \in 1..clues |-> JStr("c")])),
                              KV("reveals", JArr(<<JStr("r"), JStr("r"), JStr("r"), JStr("r"),
                                                   JObj(<<KV("text", JStr("r"))>>)>>))>>))>>)

MathsInputs ==
    {MathsPack(JStr("jemima-maths-chain-2"), ScriptMeta, 5, JNum(12)),
     MathsPack(JNull, ScriptMeta, 5, JNum(12)),
     Pop(MathsPack(JNull, ScriptMeta, 5, JNum(12)), "version"),
     MathsPack(JStr("jemima-maths-chain-1"), ScriptMeta, 5, JNum(12)),
     MathsPack(JStr("jemima-maths-chain-2"), JObj(<<>>), 5, JNum(12)),
     MathsPack(JStr("jemima-maths-chain-2"), ScriptMeta, 4, JNum(12)),
     MathsPack(JStr("jemima-maths-chain-2"), ScriptMeta, 5, JStr("12"))}

Inputs(script) == IF script = "questions" THEN QuestionsInputs ELSE MathsInputs

\* main of a sealing script up to the seal: the checked pack, or what it raised
Checked(script, pack, now) ==
    IF script = "questions" THEN questions_checked(pack, now)
    ELSE maths_checked(pack, now)

\* a thread starts a script on a pack
SealStart(t) ==
    /\ sealer[t].pc = "idle"
    /\ \E script \in Scripts :
          \E pack \in Inputs(script) :
             sealer' = [sealer EXCEPT ![t] =
                           [pc |-> "validate", script |-> script, pack |-> pack]]
    /\ UNCHANGED <<workflow, clock, draws, codec, _last_nonce_for_fallback, AES, sealed_out>>

\* normalize_pack and validate_final, or the checks of encrypt_maths_pack's
\* main; SystemExit or an exception ends the run
SealValidate(t) ==
    /\ sealer[t].pc = "validate"
    /\ \E s \in {sealer[t]} :
          \E checked \in {Checked(s.script, s.pack, utc_now(clock))} :
             sealer' = [sealer EXCEPT ![t] =
                           IF checked.ok
                           THEN [pc |-> "derive", script |-> s.script, pack |-> checked.val]
                           ELSE [pc |-> "exit", script |-> s.script, pack |-> s.pack,
                                 err |-> checked.err]]
    /\ UNCHANGED <<workflow, clock, draws, codec, _last_nonce_for_fallback, AES, sealed_out>>

\* the integrity stamp, salt, key and, with PyCryptodome, the nonce
SealDerive(t) ==
    /\ sealer[t].pc = "derive"
    /\ LET s == sealer[t]
           salt == Bytes(SaltLen, 2 * t - 1)
       IN  sealer' = [sealer EXCEPT ![t] =
                         [pc |-> "encrypt", script |-> s.script, pack |-> s.pack,
                          payload |-> stamp(s.pack), salt |-> salt,
                          key |-> pbkdf2(PASSWORD, salt),
                          nonce |-> IF AES THEN Bytes(NonceLen, 2 * t) ELSE None]]
    /\ UNCHANGED <<workflow, clock, draws, codec, _last_nonce_for_fallback, AES, sealed_out>>

\* encrypt_aes_gcm: with PyCryptodome under the nonce given; else
\* _openssl_gcm_encrypt draws the nonce itself and stores it in the global
SealEncrypt(t) ==
    /\ sealer[t].pc = "encrypt"
    /\ LET s == sealer[t]
           drawn == Bytes(NonceLen, 2 * t)
           ct == aes_gcm_encrypt(s.key, IF AES THEN s.nonce ELSE drawn, js(s.payload))
       IN  /\ sealer' = [sealer EXCEPT ![t] =
                            [pc |-> IF AES THEN "write" ELSE "read_nonce",
                             script |-> s.script, pack |-> s.pack, payload |-> s.payload,
                             salt |-> s.salt, key |-> s.key, nonce |-> s.nonce, ct |-> ct]]
           /\ _last_nonce_for_fallback' =
                 IF AES THEN _last_nonce_for_fallback
                 ELSE [_last_nonce_for_fallback EXCEPT ![s.script] = drawn]
    /\ UNCHANGED <<workflow, clock, draws, codec, AES, sealed_out>>

\* nonce = _last_nonce_for_fallback
SealReadNonce(t) ==
    /\ sealer[t].pc = "read_nonce"
    /\ LET s == sealer[t]
           nonce == _last_nonce_for_fallback[s.script]
       IN  sealer' = [sealer EXCEPT ![t] =
                         IF nonce = None
                         THEN [pc |-> "exit", script |-> s.script, pack |-> s.pack,
                               err |-> "Fallback nonce missing"]
                         ELSE [s EXCEPT !.pc = "write", !.nonce = nonce]]
    /\ UNCHANGED <<workflow, clock, draws, codec, _last_nonce_for_fallback, AES, sealed_out>>

\* the envelope is written to out_path
SealWrite(t) ==
    /\ sealer[t].pc = "write"
    /\ LET s == sealer[t]
       IN  /\ sealed_out' = [sealed_out EXCEPT ![t] = ScriptEnvelope(s.salt, s.nonce, s.ct)]
           /\ sealer' = [sealer EXCEPT ![t] = [s EXCEPT !.pc = "done"]]
    /\ UNCHANGED <<workflow, clock, draws, codec, _last_nonce_for_fallback, AES>>

InitSeal ==
    /\ InitLocals /\ InitClock /\ InitCodec
    /\ newArea = EmptyDir /\ pre = Snapshot
    /\ sealer = [t \in Threads |-> IdleSealer]
    /\ _last_nonce_for_fallback = [s \in Scripts |-> None]
    /\ AES \in BOOLEAN
    /\ sealed_out = [t \in Threads |-> NoEnvelope]

NextSeal ==
    \E t \in Threads :
        \/ SealStart(t) \/ SealValidate(t) \/ SealDerive(t)
        \/ SealEncrypt(t) \/ SealReadNonce(t) \/ SealWrite(t)

SpecSeal == InitSeal /\ [][NextSeal]_vars

(***************************************************************************)
(* Properties.                                                             *)
(***************************************************************************)
\* the results on stdout that report a room code
OkLines == {i \in DOMAIN stdout : "roomCode" \in DOMAIN stdout[i]}

\* the four file names of a timestamp key
NamesOf(ts) == {FileName(p, ts, e) : p \in Prefixes, e \in Exts}

\* the keys all four of whose files are in the directory
CompleteKeys(directory) == {k \in Keys : NamesOf(k) \subseteq DOMAIN directory}

\* the rooms of the store whose provenance names the questions file of ts
RoomsSeededFrom(ts) ==
    {c \in Codes : /\ store[c].seedSource.present
                   /\ store[c].seedSource.questionPack.filename.ts = ts}

\* C1: of two concurrent start invocations on a pool with exactly one
\* complete pair at most one reports a room code, and the pair is never
\* handed to two rooms of the store.
C1_PairAssignedOnce ==
    /\ Cardinality(OkLines) <= 1
    /\ \A k \in Keys : Cardinality(RoomsSeededFrom(k)) <= 1

\* C2: when _move_files surfaces an error, the four files of the pair are
\* back in packs/new as they were and no file of the pair, whole or cut
\* short, is left in the target directory.
C2_MoveAllOrNothing ==
    \A p \in Procs :
        (pc[p] = "idle" /\ status[p] = Raised("move failed")) =>
            /\ \A n \in NamesOf(pairs[p][1].timestamp) :
                  Exists(newArea, n) /\ newArea[n] = pre.newArea[n]
            /\ \A n \in NamesOf(pairs[p][1].timestamp) :
                  ~Exists(usedArea[room_code[p]], n)

\* C3: when the room-store write fails, the four files of the pair are in
\* packs/new, so that a later start can pick the pair again.
C3_MoveFinalOnlyAfterStoreWrite ==
    \A p \in Procs :
        (pc[p] = "idle" /\ status[p] = Raised("room store write failed")) =>
            pairs[p][1].timestamp \in CompleteKeys(newArea)

\* C4: the combined pack handed to _seed_firestore carries the checksum of
\* its own canonical encoding without the integrity field, and verified is
\* true.
C4_DeliveredPackIntegrity ==
    \A p \in Procs :
        pc[p] \in {"seed_txn", "seed_rounds", "seed_final"} =>
            LET integrity == Get(combined[p], "integrity", JObj(<<>>))
            IN  /\ Get(integrity, "checksum", JNull) =
                       JChars(sha256_hex(canonical_json_bytes(
                                  Pop(combined[p], "integrity"))))
                /\ Get(integrity, "verified", JNull) = JBool(TRUE)

\* the round numbers of the packs of the pool
ExpectedRounds ==
    LET rounds == Get(QuestionPayload, "rounds", JObj(<<>>))
    IN  {IntOf(rounds.v[i].k) : i \in DOMAIN rounds.v}

\* C5: a reader of the store never sees a room document without all of its
\* round documents and its provenance record.
C5_StoreWriteAtomic ==
    \A c \in Codes :
        store[c].exists =>
            /\ store[c].seedSource.present
            /\ {d.round : d \in store[c].rounds} = ExpectedRounds

\* the pair has an envelope that cannot be opened: ciphertext cut to less
\* than the tag, tag not matching, or a plaintext that is not JSON
PairUnsound(directory, pr) ==
    \/ directory[pr.question_sealed].data.shape \in {"q_short", "q_notjson"}
    \/ directory[pr.maths_sealed].data.shape = "m_tampered"

\* C6: a call whose selected pair has an envelope that cannot be decrypted
\* or parsed never gets past the decryption: it raises with no room code
\* drawn, packs/new and packs/used as they were when it began and nothing
\* written to the room store.
C6_DecryptFailureLeavesPoolUntouched ==
    \A p \in Procs :
        (calls[p] > 0 /\ pairs[p] # <<>> /\ PairUnsound(pre.newArea, pairs[p][1])) =>
            /\ pc[p] \in {"load", "idle"}
            /\ pc[p] = "idle" => status[p].exit = "raised"
            /\ room_code[p] = NoCode
            /\ newArea = pre.newArea
            /\ usedArea = pre.usedArea
            /\ store = pre.store

C6_Witness ==
    \E p \in Procs :
        /\ calls[p] > 0 /\ pairs[p] # <<>> /\ PairUnsound(pre.newArea, pairs[p][1])
        /\ pc[p] = "idle"
        /\ status[p] = Raised("AES-GCM authentication failed.")

\* C7: a call on a pool with no complete pair prints the result
\* {"error": "no_packs_available"} and returns, with packs/new, packs/used
\* and the room store as they were.
C7_EmptyPoolSignal ==
    \A p \in Procs :
        (calls[p] > 0 /\ CompleteKeys(pre.newArea) = {}) =>
            /\ pc[p] = "idle"
            /\ status[p] = Returned
            /\ stdout # <<>>
            /\ stdout[Len(stdout)] = [error |-> "no_packs_available"]
            /\ newArea = pre.newArea
            /\ usedArea = pre.usedArea
            /\ store = pre.store

C7_Witness ==
    \E p \in Procs :
        /\ calls[p] > 0
        /\ CompleteKeys(pre.newArea) = {}
        /\ DOMAIN pre.newArea # {}
        /\ pc[p] = "idle"

\* a comes before b in lexicographic order: they differ first at a position
\* where a has the smaller character, or a is a proper prefix of b
Before(a, b) ==
    \E i \in 1..(Len(b)) :
        /\ \A j \in 1..(i - 1) : j <= Len(a) /\ a[j] = b[j]
        /\ (i > Len(a) \/ a[i] < b[i])
        /\ i <= Len(a) + 1

\* C8: the pair a call selects has the lexicographically smallest key among
\* the complete pairs in packs/new, and the pairs reported by successive
\* successful calls come in strictly increasing key order.
C8_FifoOrder ==
    /\ \A p \in Procs :
          pc[p] # "idle" =>
              \A k \in CompleteKeys(pre.newArea) :
                  k = pairs[p][1].timestamp \/ Before(pairs[p][1].timestamp, k)
    /\ \A i, j \in OkLines :
          i < j => Before(stdout[i].questionPack.ts, stdout[j].questionPack.ts)

C8_Witness ==
    /\ Cardinality(OkLines) >= 2
    /\ \E i, j \in OkLines :
          i < j /\ Len(stdout[i].questionPack.ts) > Len(stdout[j].questionPack.ts)

\* C9: the pairs discovery returns are those of exactly the keys that have
\* all four files in packs/new, each pair naming the four files of its key.
C9_DiscoveryIsComplete ==
    \A p \in Procs :
        calls[p] > 0 =>
            /\ {pairs[p][i].timestamp : i \in DOMAIN pairs[p]} = CompleteKeys(pre.newArea)
            /\ \A i \in DOMAIN pairs[p] :
                  LET ts == pairs[p][i].timestamp
                  IN  pairs[p][i] =
                        PackPair(ts, FileName(QUESTIONS_PREFIX, ts, "sealed"),
                                 FileName(MATHS_PREFIX, ts, "sealed"),
                                 FileName(QUESTIONS_PREFIX, ts, "json"),
                                 FileName(MATHS_PREFIX, ts, "json"))

C9_Witness ==
    \E p \in Procs :
        /\ pc[p] = "load"
        /\ \E k \in Keys :
              /\ k \notin CompleteKeys(pre.newArea)
              /\ FileName(QUESTIONS_PREFIX, k, "sealed") \in DOMAIN pre.newArea
              /\ FileName(MATHS_PREFIX, k, "sealed") \in DOMAIN pre.newArea
              /\ Before(k, pairs[p][1].timestamp)

\* C10: a room code drawn by a call has three characters, none of them 0,
\* 1, I or O, and names no directory of packs/used at the time the call
\* creates its own; the room codes reported by the calls are all different.
C10_RoomCodeFresh ==
    /\ \A p \in Procs :
          room_code[p] # NoCode =>
              /\ Len(room_code[p]) = 3
              /\ \A j \in 1..Len(room_code[p]) :
                    /\ \E a \in DOMAIN Alphabet : Alphabet[a] = room_code[p][j]
                    /\ room_code[p][j] \notin {"0", "1", "I", "O"}
              /\ pc[p] = "mkdir" => room_code[p] \notin DOMAIN usedArea
    /\ \A i, j \in OkLines : i # j => stdout[i].roomCode # stdout[j].roomCode

C10_Witness ==
    \E p \in Procs :
        /\ pc[p] = "mkdir"
        /\ DOMAIN usedArea # {}
        /\ OkLines = {}

\* C11: a run of generate leaves every sealed file that exists before it
\* with the bytes it had; it only creates sealed files that did not exist.
C11_GenerateKeepsSealedFiles ==
    [][\A n \in DOMAIN newArea :
          n.ext = "sealed" =>
              /\ n \in DOMAIN newArea'
              /\ newArea'[n] = newArea[n]]_vars

C13_SealUnsealRoundTrip ==
    (/\ c_out.path = "done" /\ c_made.tamper = "none"
     /\ c_made.iterations = PBKDF2_ITERATIONS)
    => /\ c_out._decrypt_envelope.ok
       /\ c_out._decrypt_envelope.val = SealedDocument(c_made.path)
       /\ c_made.path = "workflow" => c_out._decrypt_envelope.val = c_pack
       /\ c_out.unseal_check.decrypted.ok
       /\ c_out.unseal_check.decrypted.val = c_made.plaintext

C13_Witness ==
    /\ c_out.path = "done" /\ c_made.tamper = "none"
    /\ c_made.path = "workflow" /\ c_stage = "mutated"
    /\ c_out._decrypt_envelope.ok /\ c_out.unseal_check.decrypted.ok

\* the errors that tell of a malformed envelope, and those that tell of a
\* failed tag check
FormatErrors == {"Invalid sealed envelope.", "Ciphertext too short for AES-GCM."}
AuthErrors == {"AES-GCM authentication failed.",
               "EVP_DecryptFinal_ex verification failed"}

\* C14: on each unseal path, an envelope whose decoded ct_b64 is shorter than
\* the 16-byte tag ends in a format error, and an authentication failure is
\* reported only for a ciphertext long enough to carry a tag.
C14_ShortCiphertextIsFormatError ==
    c_out.path = "done" =>
       LET short == b64decode(c_env.ct_b64).len < TagLen
       IN  /\ short => /\ c_out._decrypt_envelope.err \in FormatErrors
                       /\ c_out.unseal_check.err \in FormatErrors
           /\ c_out._decrypt_envelope.err \in AuthErrors => ~short
           /\ c_out.unseal_check.err \in AuthErrors => ~short

\* C15: every envelope a sealing path writes has alg "AES-GCM", pbkdf2
\* "PBKDF2-HMAC-SHA256/150000", a salt of 16 bytes, a nonce of 12 bytes and
\* a ct_b64 that holds the ciphertext followed by the 16-byte tag.
C15_EnvelopeFields ==
    (c_env # NoEnvelope /\ c_made.tamper = "none") =>
       /\ c_env.alg = "AES-GCM"
       /\ "pbkdf2" \in DOMAIN c_env
       /\ c_env.pbkdf2 = <<"PBKDF2-HMAC-SHA256/", "1", "5", "0", "0", "0", "0">>
       /\ b64decode(c_env.salt_b64).len = SaltLen
       /\ b64decode(c_env.nonce_b64).len = NonceLen
       /\ b64decode(c_env.ct_b64).len = Len(c_made.plaintext) + TagLen

\* C16: an envelope sealed with any iteration count, which the envelope
\* records, and not changed since is decrypted by both unseal paths under
\* the same password.
C16_UnsealHonoursIterations ==
    (c_out.path = "done" /\ c_made.tamper = "none") =>
       /\ c_out._decrypt_envelope.ok
       /\ c_out.unseal_check.decrypted.ok

\* the pack's last field is integrity and its checksum is that of the pack
\* without it
ChecksumVerifies(pack) ==
    /\ pack.t = "obj" /\ pack.v # <<>>
    /\ pack.v[Len(pack.v)].k = "integrity"
    /\ Get(Get(pack, "integrity", JObj(<<>>)), "checksum", JNull) =
           JChars(sha256_hex(canonical_json_bytes(Pop(pack, "integrity"))))

\* C18: command_start goes on from decrypting the two payloads to combining
\* them, without reporting anything, only if the checksum each payload
\* carries is that of the payload.
C18_IntegrityVerifiedBeforeUse ==
    [][\A p \in Procs :
          (pc[p] = "load" /\ pc'[p] = "codes") =>
             LET pr == pairs[p][1]
                 question_payload ==
                     _decrypt_envelope(Content(newArea[pr.question_sealed].data))
                 maths_payload ==
                     _decrypt_envelope(Content(newArea[pr.maths_sealed].data))
             IN  /\ ChecksumVerifies(question_payload.val)
                 /\ ChecksumVerifies(maths_payload.val)]_vars

\* C19: every sealed file generate has written holds an envelope that
\* encrypts a pack whose last field is integrity, with the checksum of the
\* rest of the pack.
C19_SealedPackIsStamped ==
    \A n \in DOMAIN newArea :
        (n.ext = "sealed" /\ "alg" \in DOMAIN newArea[n].data) =>
            LET pack == _decrypt_envelope(newArea[n].data)
            IN  pack.ok /\ ChecksumVerifies(pack.val)

\* C17: each envelope a run of a sealing script has written carries the
\* nonce its own ciphertext was encrypted under, and unseals to the pack that
\* run stamped, however the runs of two threads interleave.
C17_EnvelopeCarriesOwnNonce ==
    \A t \in Threads :
        sealer[t].pc = "done" =>
            /\ b64decode(sealed_out[t].nonce_b64) = b64decode(sealed_out[t].ct_b64).nonce
            /\ _decrypt_envelope(sealed_out[t]) = Ok(sealer[t].payload)

\* the pack passes the script's normalisation and validation
PassesValidation(script, pack, now) ==
    IF script = "questions"
    THEN \E normalized \in {normalize_pack(pack, now)} :
            normalized.ok /\ validate_final(normalized.val).ok
    ELSE maths_checked(pack, now).ok

\* C20: a run whose pack fails normalisation or validation has ended with
\* the error once it is past the checks, and it has derived no key,
\* encrypted nothing and written no sealed file.
C20_ValidationBeforeCrypto ==
    \A t \in Threads :
        (/\ sealer[t].pc \notin {"idle", "validate"}
         /\ ~PassesValidation(sealer[t].script, sealer[t].pack, utc_now(clock)))
        => /\ sealer[t].pc = "exit"
           /\ "key" \notin DOMAIN sealer[t]
           /\ "ct" \notin DOMAIN sealer[t]
           /\ sealed_out[t] = NoEnvelope

C20_Witness ==
    \E t \in Threads :
        /\ sealer[t].pc = "exit" /\ sealer[t].script = "questions"
        /\ sealer[t].err = "Options must be two non-empty strings"
        /\ sealed_out[t] = NoEnvelope

\* the pack a run of the questions script holds once normalize_pack and
\* validate_final have returned
Validated(t) ==
    /\ sealer[t].pc \in {"derive", "encrypt", "read_nonce", "write", "done"}
    /\ sealer[t].script = "questions"

\* a non-empty string, as the schema of an item wants it
Text(x) == IsStr(x) /\ NonBlank(x)

\* an item of the schema: prompt, two options, correct A or B
SchemaItem(it) ==
    /\ IsDict(it)
    /\ Text(Get(it, "prompt", JNull))
    /\ \E opts \in {Get(it, "options", JNull)} :
          /\ IsList(opts) /\ Len(opts.v) = 2
          /\ \A i \in DOMAIN opts.v : Text(opts.v[i])
    /\ Get(it, "correct", JNull) \in {JStr("A"), JStr("B")}

\* a round of the schema: three host items and three guest items
SchemaRound(rd) ==
    /\ IsDict(rd)
    /\ \A side \in {"hostItems", "guestItems"} :
          \E items \in {Get(rd, side, JNull)} :
             /\ IsList(items) /\ Len(items.v) = 3
             /\ \A i \in DOMAIN items.v : SchemaItem(items.v[i])

\* C21: a questions pack that normalize_pack and validate_final have let
\* through has the rounds "1" to "5" and no other round key, each round with
\* three host and three guest items, each item with a non-empty prompt, two
\* non-empty string options and correct A or B.
C21_ClosedWorldValidation ==
    \A t \in Threads :
        Validated(t) =>
            \E rounds \in {Get(sealer[t].pack, "rounds", JNull)} :
               /\ IsDict(rounds)
               /\ {rounds.v[i].k : i \in DOMAIN rounds.v} = {"1", "2", "3", "4", "5"}
               /\ \A i \in DOMAIN rounds.v : SchemaRound(rounds.v[i].v)

\* the first host item of round "1" of a pack whose rounds are a mapping
FirstItem(pack) == Get(Get(Get(pack, "rounds", JNull), "1", JNull), "hostItems", JNull).v[1]
HasFirstItem(pack) ==
    \E rounds \in {Get(pack, "rounds", JNull)} :
       /\ IsDict(rounds) /\ IsDict(Get(rounds, "1", JNull))
       /\ \E items \in {Get(Get(rounds, "1", JNull), "hostItems", JNull)} :
             IsList(items) /\ items.v # <<>>

\* an item in the legacy shape: a mapping with a question and a correct
\* answer that is not already in the normalised shape
Legacy(it) ==
    /\ IsDict(it)
    /\ ~(HasKey(it, "prompt") /\ HasKey(it, "options") /\ HasKey(it, "correct"))
    /\ Text(Get(it, "question", JNull)) /\ Text(Get(it, "correct_answer", JNull))

\* the distractors the priority order allows for a legacy item: medium if
\* it is there, else easy, else hard, else any distractor under another key
ByPriority(ds) ==
    IF ~IsDict(ds) THEN {}
    ELSE IF Text(Get(ds, "medium", JNull)) THEN {Get(ds, "medium", JNull)}
    ELSE IF Text(Get(ds, "easy", JNull)) THEN {Get(ds, "easy", JNull)}
    ELSE IF Text(Get(ds, "hard", JNull)) THEN {Get(ds, "hard", JNull)}
    ELSE {ds.v[i].v : i \in {j \in DOMAIN ds.v : Text(ds.v[j].v)}}

\* C22: when a run of the questions script normalises a pack whose first
\* item is a legacy item, the item becomes {prompt: question, options:
\* [correct_answer, d], correct: "A"} with d the medium distractor, else the
\* easy one, else the hard one, else any other distractor; the run is
\* rejected when the item has no usable distractor.
C22_LegacyConversion ==
    [][\A t \in Threads :
          (/\ sealer[t].pc = "validate" /\ sealer'[t].pc # "validate"
           /\ sealer[t].script = "questions"
           /\ HasFirstItem(sealer[t].pack) /\ Legacy(FirstItem(sealer[t].pack)))
          => \E item \in {FirstItem(sealer[t].pack)} :
                \E wanted \in {ByPriority(Get(item, "distractors", JObj(<<>>)))} :
                   IF wanted = {} THEN sealer'[t].pc = "exit"
                   ELSE /\ sealer'[t].pc = "derive"
                        /\ \E d \in wanted :
                              FirstItem(sealer'[t].pack) =
                                 JObj(<<KV("prompt", Get(item, "question", JNull)),
                                        KV("options",
                                           JArr(<<Get(item, "correct_answer", JNull), d>>)),
                                        KV("correct", JStr("A"))>>)]_vars

\* the pack submitted with the current version tag in place of its own
Retagged(pack) == SetKey(pack, "version", JStr("jemima-questions-1"))

\* C23: a questions pack that would pass normalize_pack and validate_final
\* under the current version tag passes them under any version value it was
\* submitted with, and leaves them tagged jemima-questions-1.
C23_QuestionsVersionDefaulted ==
    [][\A t \in Threads :
          (/\ sealer[t].pc = "validate" /\ sealer'[t].pc # "validate"
           /\ sealer[t].script = "questions"
           /\ questions_checked(Retagged(sealer[t].pack), utc_now(clock)).ok)
          => /\ sealer'[t].pc = "derive"
             /\ Get(sealer'[t].pack, "version", JNull) = JStr("jemima-questions-1")]_vars

\* C24: a run of the maths script gets past its checks, the only way to the
\* sealed file, only if the pack it was given declares a version of
\* ALLOWED_VERSIONS itself; the pack that goes on carries that same version.
C24_MathsVersionDeclared ==
    [][\A t \in Threads :
          (/\ sealer[t].pc = "validate" /\ sealer'[t].pc = "derive"
           /\ sealer[t].script = "maths")
          => /\ Get(sealer[t].pack, "version", JNull) \in ALLOWED_VERSIONS
             /\ Get(sealer'[t].pack, "version", JNull)
                   = Get(sealer[t].pack, "version", JNull)]_vars

\* C25: audit_pack returns a report for every pack that carries no stamp of
\* its content (the integrity field is missing, left over from an earlier
\* content, not a mapping, or without a checksum), and the report says
\* checksum_ok false; it does not raise.
C25_ChecksumFailsSoftly ==
    c_report.stage = "raw" => c_report.report.ok /\ ~c_report.report.checksum_ok

\* C26: _generate_room_code's loop ends in no way but by returning a code,
\* and when the draws are fair a call that listed the used directories with
\* at least one code left over gets its room code and goes on to the move.
C26_RoomCodeEventuallyDrawn ==
    /\ [][\A p \in Procs : pc[p] = "draw" => pc'[p] \in {"draw", "mkdir"}]_vars
    /\ \A p \in Procs :
          (pc[p] = "draw" /\ Codes \ used_codes[p] # {})
             ~> (pc[p] = "mkdir" /\ room_code[p] \in Codes \ used_codes[p])

C26_Witness ==
    \E p \in Procs :
        /\ pc[p] = "mkdir" /\ drawn_code[p] \in used_codes[p]
        /\ room_code[p] \notin used_codes[p]

\* the payload of a sealed file of the pool as it was when the call began
PayloadOf(name) == _decrypt_envelope(Content(pre.newArea[name].data)).val

\* the numbers of the entries of a list of rounds, in the order of the list
RoundNumbers(listed) == [i \in DOMAIN listed |-> Get(listed[i], "round", JNull).v]

\* C27: the rounds of the combined pack are a list with one entry for each
\* key of the questions payload's rounds mapping, in ascending order of the
\* keys as numbers; each entry has the host items and the guest items of its
\* round as they were, in their order; the maths object is the one of the
\* maths payload.
C27_RecombinationKeepsOrder ==
    \A p \in Procs :
        combined[p] # JNull =>
            \E rounds \in {Get(PayloadOf(pairs[p][1].question_sealed), "rounds", JNull)} :
               \E listed \in {Get(combined[p], "rounds", JNull).v} :
                  /\ Len(listed) = Len(rounds.v)
                  /\ \A i, j \in DOMAIN listed :
                        i < j => RoundNumbers(listed)[i] < RoundNumbers(listed)[j]
                  /\ \A i \in DOMAIN rounds.v :
                        \E j \in DOMAIN listed :
                           listed[j] =
                              JObj(<<KV("round", JNum(IntOf(rounds.v[i].k))),
                                     KV("hostItems", Get(rounds.v[i].v, "hostItems", JNull)),
                                     KV("guestItems",
                                        Get(rounds.v[i].v, "guestItems", JNull))>>)
                  /\ Get(combined[p], "maths", JNull)
                        = Get(PayloadOf(pairs[p][1].maths_sealed), "maths", JNull)

C27_Witness ==
    \E p \in Procs :
        /\ combined[p] # JNull
        /\ RoundNumbers(Get(combined[p], "rounds", JNull).v) = <<1, 2, 10>>
        /\ Get(PayloadOf(pairs[p][1].question_sealed), "rounds", JNull).v[1].k = "2"
        /\ Len(Get(Get(combined[p], "rounds", JNull).v[1], "hostItems", JNull).v) > 1

Whole(directory, n) == Exists(directory, n) /\ directory[n].whole

\* C29: from the moment a call has its pair, each of the four files of the
\* pair is, with all of its bytes, in packs/new or in the room directory of
\* a call that moves the pair, at every step of _move_files, of its rollback
\* and after its failure.
C29_NoFileLostByMove ==
    \A p \in Procs :
        pairs[p] # <<>> =>
            \A i \in DOMAIN Transfers(pairs[p][1]) :
               \E src \in {Transfers(pairs[p][1])[i]} :
                  \/ Whole(newArea, src)
                  \/ \E q \in Procs :
                        /\ room_code[q] \in DOMAIN usedArea
                        /\ Whole(usedArea[room_code[q]], src)

\* the call of p has returned after printing its room code
Succeeded(p) == pc[p] = "idle" /\ status[p] = Returned /\ room_code[p] # NoCode

\* the names a step of some call may touch: the files of its pair
Moving(n) ==
    \E p \in Procs :
       /\ pairs'[p] # <<>>
       /\ \E i \in DOMAIN Transfers(pairs'[p][1]) : Transfers(pairs'[p][1])[i] = n

\* C30: when a call has succeeded, the four files of its pair are no longer
\* in packs/new and are in the directory of packs/used named by its room
\* code, with the bytes they had; no step of a call changes another file of
\* packs/new, nor a directory of packs/used other than the ones named by the
\* room codes of the calls.
C30_AssignConsumesOnePair ==
    /\ [](\A p \in Procs :
             Succeeded(p) =>
                 \A i \in DOMAIN Transfers(pairs[p][1]) :
                    \E src \in {Transfers(pairs[p][1])[i]} :
                       /\ ~Exists(newArea, src)
                       /\ room_code[p] \in DOMAIN usedArea
                       /\ Exists(usedArea[room_code[p]], src)
                       /\ usedArea[room_code[p]][src]
                             = File([shape |-> "good", name |-> src]))
    /\ [][/\ \A n \in DOMAIN newArea \cup DOMAIN newArea' :
                (n \in DOMAIN newArea /\ n \in DOMAIN newArea' /\ newArea'[n] = newArea[n])
                \/ Moving(n)
          /\ \A c \in DOMAIN usedArea :
                /\ c \in DOMAIN usedArea'
                /\ usedArea'[c] = usedArea[c] \/ \E p \in Procs : room_code'[p] = c]_vars

====
